---- MODULE Spec2Model ----
(***************************************************************************)
(* TrustForge (src/Blockchain/contracts/trustforge.sol): a collateral-free *)
(* micro-lending ledger.  Every external function of the contract is one   *)
(* action; for each of them an operator <name>Error gives the reason the   *)
(* call reverts with in the current state ("ok" when it succeeds), and a   *)
(* call that reverts leaves the whole state as it was.                     *)
(*                                                                         *)
(* Scales.  TLC integers are 32 bit, so token amounts are counted in units *)
(* of 10^-6 ether (Ether == 10^6 instead of 10^18) and block.timestamp in  *)
(* whole days (Day == 1 instead of 86400).  Every formula of the contract  *)
(* is kept as written over these units.                                    *)
(***************************************************************************)
EXTENDS Integers, FiniteSets, Sequences, TLC

\* ------------------------------------------------------------------ scales
Ether == 1000000
Day == 1

\* ------------------------------------------------------------------ bounds
\* Spec, SpecLoan: block.timestamp never passes MaxTime and at most MaxTx
\* tracked transactions (the sum of all totalTransactions) are made.
MaxTime == 3
MaxTx == 5
\* SpecTrust: one borrower's long credit history, up to MaxTxTrust tracked
\* transactions within MaxTime.
MaxTxTrust == 21
\* SpecCooldown: a longer stretch of time, up to MaxTimeCooldown, with one
\* lender and one borrower.
MaxTimeCooldown == 13

\* SpecRate: two borrowers, one of them with a credit history of up to
\* MaxTxRate tracked transactions, in a wallet's first MaxTimeRate days.
MaxTxRate == 13
MaxTimeRate == 8

\* SpecMaturity: a wallet ages up to MaxTimeMaturity days.
MaxTimeMaturity == 91

\* SpecLimit: one borrower, up to MaxTxLimit tracked transactions in a
\* wallet's first MaxTimeLimit days.
MaxTxLimit == 7
MaxTimeLimit == 8

\* SpecInterest: two lenders, one with twice the other's deposit, and one
\* borrower, up to MaxTxInterest tracked transactions within MaxTime.
MaxTxInterest == 6

\* SpecLedger: one lender and one borrower with a credit history of up to
\* MaxTxLedger tracked transactions within MaxTime.
MaxTxLedger == 11

\* SpecVouch: two borrowers with credit histories of up to MaxTxVouch
\* tracked transactions between them and the lender.
MaxTxVouch == 15
\* SpecWallet: tracked transactions of a run
MaxTxWallet == 11
\* SpecBook: tracked transactions of a run
MaxTxBook == 6
\* SpecAtomic: tracked transactions of a run
MaxTxAtomic == 4

\* --------------------------------------------------------------- addresses
ZeroAddress == "0x0"
Contract == "TrustForge"
Owner == "owner"
Users == {"owner", "alice", "bob"}

\* --------------------------------------------------------------- constants
INITIAL_TRUST_SCORE == 100
MAX_TRUST_SCORE == 1000
MATURITY_LEVEL_1 == 7 * Day
MATURITY_LEVEL_2 == 30 * Day
MATURITY_LEVEL_3 == 90 * Day

VARIABLES
    \* DAO adjustable parameters
    TRUST_INCREASE_PER_REPAYMENT, TRUST_DECREASE_ON_DEFAULT,
    BASE_INTEREST_RATE, MAX_INTEREST_RATE,
    MIN_LOAN_AMOUNT,
    MIN_LOAN_DURATION, MAX_LOAN_DURATION, DEFAULT_COOLDOWN_PERIOD,
    LOW_TRUST_LIMIT, MED_TRUST_LIMIT, HIGH_TRUST_LIMIT,
    \* pool tracking
    totalPoolLiquidity, totalActiveLoans, totalDefaultedAmount,
    totalInterestPool, totalLenderDeposits,
    \* governance and emergency switch
    daoAddress, daoEnabled, paused,
    \* mappings
    userProfiles, activeLoans, lenders, vouches,
    \* the lending token's balances (users and the contract's custody)
    balanceOf,
    \* block.timestamp
    now

params == <<TRUST_INCREASE_PER_REPAYMENT, TRUST_DECREASE_ON_DEFAULT,
            BASE_INTEREST_RATE, MAX_INTEREST_RATE,
            MIN_LOAN_AMOUNT,
            MIN_LOAN_DURATION, MAX_LOAN_DURATION, DEFAULT_COOLDOWN_PERIOD,
            LOW_TRUST_LIMIT, MED_TRUST_LIMIT, HIGH_TRUST_LIMIT>>

pool == <<totalPoolLiquidity, totalActiveLoans, totalDefaultedAmount,
          totalInterestPool, totalLenderDeposits>>

gov == <<daoAddress, daoEnabled, paused>>

maps == <<userProfiles, activeLoans, lenders, vouches>>

ledger == <<params, pool, gov, maps, balanceOf>>

vars == <<ledger, now>>

\* ------------------------------------------------------------------ inputs
\* token balance every wallet starts with (the tests hand out tokens first)
InitialBalance == 2 * MIN_LOAN_AMOUNT
\* who lends and who borrows in the runs explored (the contract itself
\* lets any address do either)
Lenders == {"owner", "alice"}
Borrowers == {"bob"}
DepositAmounts == {0, 2 * MIN_LOAN_AMOUNT}
LoanAmounts == {MIN_LOAN_AMOUNT - 1, MIN_LOAN_AMOUNT, 2 * MIN_LOAN_AMOUNT,
                2 * MIN_LOAN_AMOUNT + 1}
Durations == {0, Day, 366 * Day}
\* governance inputs: accepted and rejected argument tuples
DaoCandidates == {ZeroAddress, "alice"}
TrustInputs == {<<100, 60>>, <<101, 60>>, <<100, 0>>, <<1, 501>>}
RateInputs == {<<1000, 5000>>, <<1000, 1500>>, <<2000, 2000>>, <<1000, 5001>>}
LimitInputs == {<<Ether \div 20, Ether \div 2, Ether>>,
                <<Ether \div 10, Ether \div 10, Ether>>}
DurationInputs == {<<2 * Day, 365 * Day>>, <<2 * Day, 2 * Day>>,
                   <<0, 10 * Day>>, <<Day, 366 * Day>>}
CooldownInputs == {7 * Day, 6 * Day, 181 * Day}
\* SpecGov: the same with further accepted and rejected tuples, the bounds
\* of each range among them
GovDaoCandidates == DaoCandidates \cup {"bob"}
GovTrustInputs == TrustInputs \cup {<<1, 500>>, <<0, 60>>}
GovRateInputs == RateInputs \cup {<<0, 1>>}
GovLimitInputs == LimitInputs \cup {<<1, 2, 3>>, <<Ether, Ether \div 2, 2 * Ether>>}
GovDurationInputs == DurationInputs \cup {<<Day, 365 * Day>>, <<Day, Day>>,
                                          <<365 * Day, 365 * Day>>,
                                          <<3 * Day, 2 * Day>>}
GovCooldownInputs == CooldownInputs \cup {180 * Day}

\* ------------------------------------------------------------ construction
EmptyProfile ==
    [trustScore |-> 0, totalLoansTaken |-> 0, successfulRepayments |-> 0,
     defaults |-> 0, hasActiveLoan |-> FALSE, lastDefaultTime |-> 0,
     walletFirstSeen |-> 0, totalTransactions |-> 0]

\* LoanStatus.ACTIVE is the zero value of the enum
EmptyLoan ==
    [borrower |-> ZeroAddress, principal |-> 0, interestAmount |-> 0,
     totalRepayment |-> 0, startTime |-> 0, dueDate |-> 0, duration |-> 0,
     status |-> "ACTIVE"]

EmptyLender ==
    [depositedAmount |-> 0, depositTime |-> 0, totalInterestEarned |-> 0,
     lastClaimTime |-> 0]

Init ==
    /\ TRUST_INCREASE_PER_REPAYMENT = 50
    /\ TRUST_DECREASE_ON_DEFAULT = 200
    /\ BASE_INTEREST_RATE = 500
    /\ MAX_INTEREST_RATE = 2000
    /\ MIN_LOAN_AMOUNT = Ether \div 100
    /\ MIN_LOAN_DURATION = 1 * Day
    /\ MAX_LOAN_DURATION = 180 * Day
    /\ DEFAULT_COOLDOWN_PERIOD = 30 * Day
    /\ LOW_TRUST_LIMIT = Ether \div 10
    /\ MED_TRUST_LIMIT = Ether \div 2
    /\ HIGH_TRUST_LIMIT = 2 * Ether
    /\ totalPoolLiquidity = 0
    /\ totalActiveLoans = 0
    /\ totalDefaultedAmount = 0
    /\ totalInterestPool = 0
    /\ totalLenderDeposits = 0
    /\ daoAddress = ZeroAddress
    /\ daoEnabled = FALSE
    /\ paused = FALSE
    /\ userProfiles = [u \in Users |-> EmptyProfile]
    /\ activeLoans = [u \in Users |-> EmptyLoan]
    /\ lenders = [u \in Users |-> EmptyLender]
    /\ vouches = [v \in Users |-> [w \in Users |-> FALSE]]
    /\ balanceOf = [a \in Users \cup {Contract} |->
                       IF a = Contract THEN 0 ELSE InitialBalance]
    /\ now = 1

\* A reverted call: every state change of the transaction is undone.
Revert == UNCHANGED vars

\* --------------------------------------------------------------- modifiers
\* trackWalletActivity: the caller's profile after the modifier ran
\* mutant: every tracked call stamps walletFirstSeen anew
trackWalletActivity_AlwaysStamps(profiles, sender) ==
    [profiles EXCEPT ![sender] =
        [@ EXCEPT !.walletFirstSeen = now,
                  !.totalTransactions = @ + 1]]

trackWalletActivity(profiles, sender) ==
    [profiles EXCEPT ![sender] =
        [@ EXCEPT !.walletFirstSeen = IF @ = 0 THEN now ELSE @,
                  !.totalTransactions = @ + 1]]

\* mutant: once the DAO is enabled the owner's rights pass to it
onlyAdminOrDAO_Handover(sender) ==
    IF daoEnabled THEN sender = daoAddress ELSE sender = Owner

onlyAdminOrDAO(sender) ==
    sender = Owner \/ (daoEnabled /\ sender = daoAddress)

\* ---------------------------------------------------- wallet maturity, rates
\* mutant: the age thresholds are exclusive
WalletMaturityOf_Exclusive(user) ==
    IF user.walletFirstSeen = 0
    THEN [age |-> 0, maturityLevel |-> 0, maturityMultiplier |-> 20]
    ELSE LET age == now - user.walletFirstSeen IN
         IF age > MATURITY_LEVEL_3
         THEN [age |-> age, maturityLevel |-> 3, maturityMultiplier |-> 150]
         ELSE IF age > MATURITY_LEVEL_2
         THEN [age |-> age, maturityLevel |-> 2, maturityMultiplier |-> 100]
         ELSE IF age > MATURITY_LEVEL_1
         THEN [age |-> age, maturityLevel |-> 1, maturityMultiplier |-> 50]
         ELSE [age |-> age, maturityLevel |-> 0, maturityMultiplier |-> 20]

WalletMaturityOf(user) ==
    IF user.walletFirstSeen = 0
    THEN [age |-> 0, maturityLevel |-> 0, maturityMultiplier |-> 20]
    ELSE LET age == now - user.walletFirstSeen IN
         IF age >= MATURITY_LEVEL_3
         THEN [age |-> age, maturityLevel |-> 3, maturityMultiplier |-> 150]
         ELSE IF age >= MATURITY_LEVEL_2
         THEN [age |-> age, maturityLevel |-> 2, maturityMultiplier |-> 100]
         ELSE IF age >= MATURITY_LEVEL_1
         THEN [age |-> age, maturityLevel |-> 1, maturityMultiplier |-> 50]
         ELSE [age |-> age, maturityLevel |-> 0, maturityMultiplier |-> 20]

getWalletMaturity(wallet) == WalletMaturityOf(userProfiles[wallet])

\* mutant: the maturity multiplier is not applied
_calculateBorrowingLimit_NoMultiplier(trustScore, maturityMultiplier) ==
    IF trustScore < 300 THEN LOW_TRUST_LIMIT
    ELSE IF trustScore < 600 THEN MED_TRUST_LIMIT
    ELSE HIGH_TRUST_LIMIT

_calculateBorrowingLimit(trustScore, maturityMultiplier) ==
    LET baseLimit == IF trustScore < 300 THEN LOW_TRUST_LIMIT
                     ELSE IF trustScore < 600 THEN MED_TRUST_LIMIT
                     ELSE HIGH_TRUST_LIMIT
    IN (baseLimit * maturityMultiplier) \div 100

\* mutant: the rate is not clamped to MAX_INTEREST_RATE
_calculateInterestRate_NoClamp(trustScore, maturityLevel) ==
    LET r0 == BASE_INTEREST_RATE
        r1 == r0 + (IF trustScore < 300 THEN 700
                    ELSE IF trustScore < 600 THEN 300 ELSE 0)
        r2 == r1 + (IF maturityLevel = 0 THEN 500
                    ELSE IF maturityLevel = 1 THEN 200 ELSE 0)
    IN IF totalPoolLiquidity > 0
       THEN r2 + ((totalActiveLoans * 100) \div totalPoolLiquidity) * 2
       ELSE r2

_calculateInterestRate(trustScore, maturityLevel) ==
    LET r0 == BASE_INTEREST_RATE
        r1 == r0 + (IF trustScore < 300 THEN 700
                    ELSE IF trustScore < 600 THEN 300 ELSE 0)
        r2 == r1 + (IF maturityLevel = 0 THEN 500
                    ELSE IF maturityLevel = 1 THEN 200 ELSE 0)
        r3 == IF totalPoolLiquidity > 0
              THEN r2 + ((totalActiveLoans * 100) \div totalPoolLiquidity) * 2
              ELSE r2
    IN IF r3 > MAX_INTEREST_RATE THEN MAX_INTEREST_RATE ELSE r3

\* mutant: what the lender has already been paid is taken off the share
_calculateInterestShare_LessEarned(lenderAddress) ==
    IF totalLenderDeposits = 0 \/ totalInterestPool = 0
    THEN 0
    ELSE LET share == (lenders[lenderAddress].depositedAmount
                          * totalInterestPool) \div totalLenderDeposits
             earned == lenders[lenderAddress].totalInterestEarned
         IN IF share > earned THEN share - earned ELSE 0

_calculateInterestShare(lenderAddress) ==
    IF totalLenderDeposits = 0 \/ totalInterestPool = 0
    THEN 0
    ELSE (lenders[lenderAddress].depositedAmount * totalInterestPool)
            \div totalLenderDeposits

\* ---------------------------------------------------------- trust updates
\* mutant: the score is not capped at MAX_TRUST_SCORE
_increaseTrustScore_NoCap(profile) ==
    LET i0 == TRUST_INCREASE_PER_REPAYMENT
        i1 == IF profile.successfulRepayments >= 5 THEN i0 + 20 ELSE i0
        increase == IF profile.successfulRepayments >= 10 THEN i1 + 10 ELSE i1
    IN profile.trustScore + increase

\* mutant: no bonus for five or more repayments
_increaseTrustScore_NoLoyaltyBonus(profile) ==
    LET i0 == TRUST_INCREASE_PER_REPAYMENT
        increase == IF profile.successfulRepayments >= 10 THEN i0 + 10 ELSE i0
    IN IF profile.trustScore + increase > MAX_TRUST_SCORE
       THEN MAX_TRUST_SCORE
       ELSE profile.trustScore + increase

\* the new trust score of a profile whose successfulRepayments is already
\* incremented
_increaseTrustScore(profile) ==
    LET i0 == TRUST_INCREASE_PER_REPAYMENT
        i1 == IF profile.successfulRepayments >= 5 THEN i0 + 20 ELSE i0
        increase == IF profile.successfulRepayments >= 10 THEN i1 + 10 ELSE i1
    IN IF profile.trustScore + increase > MAX_TRUST_SCORE
       THEN MAX_TRUST_SCORE
       ELSE profile.trustScore + increase

\* mutant: a repeated default is not decreased by a further 100
_decreaseTrustScore_NoRepeatPenalty(profile) ==
    LET decrease == TRUST_DECREASE_ON_DEFAULT
    IN IF profile.trustScore > decrease
       THEN profile.trustScore - decrease
       ELSE INITIAL_TRUST_SCORE \div 2

\* the new trust score of a profile whose defaults is already incremented
_decreaseTrustScore(profile) ==
    LET d0 == TRUST_DECREASE_ON_DEFAULT
        decrease == IF profile.defaults > 1 THEN d0 + 100 ELSE d0
    IN IF profile.trustScore > decrease
       THEN profile.trustScore - decrease
       ELSE INITIAL_TRUST_SCORE \div 2

\* --------------------------------------------------------- lender functions
\* mutant: a deposit of nothing is accepted
depositToPoolError_AcceptsZero(sender, amount) ==
    IF paused THEN "EnforcedPause"
       ELSE IF balanceOf[sender] < amount
       THEN "ERC20InsufficientBalance"
       ELSE "ok"

depositToPoolError(sender, amount) ==
    IF paused THEN "EnforcedPause"
       ELSE IF ~(amount > 0) THEN "Amount must be > 0"
       ELSE IF balanceOf[sender] < amount
       THEN "ERC20InsufficientBalance"
       ELSE "ok"

depositToPool(sender, amount) ==
    IF depositToPoolError(sender, amount) # "ok" THEN Revert
    ELSE /\ userProfiles' = trackWalletActivity(userProfiles, sender)
         /\ balanceOf' = [balanceOf EXCEPT ![sender] = @ - amount,
                                           ![Contract] = @ + amount]
         /\ lenders' = [lenders EXCEPT ![sender] =
                [@ EXCEPT !.depositedAmount = @ + amount,
                          !.depositTime = now,
                          !.lastClaimTime = now]]
         /\ totalPoolLiquidity' = totalPoolLiquidity + amount
         /\ totalLenderDeposits' = totalLenderDeposits + amount
         /\ UNCHANGED <<params, gov, activeLoans, vouches, now,
                        totalActiveLoans, totalDefaultedAmount,
                        totalInterestPool>>

\* mutant: the liquidity that is lent out is not checked
withdrawFromPoolError_NoLiquidityCheck(sender, amount) ==
    LET lender == lenders[sender]
    IN IF paused THEN "EnforcedPause"
       ELSE IF ~(amount > 0) THEN "Amount must be > 0"
       ELSE IF ~(lender.depositedAmount >= amount)
       THEN "Insufficient balance"
       ELSE IF totalLenderDeposits < amount THEN "Panic(0x11)"
       ELSE IF balanceOf[Contract] < amount
       THEN "ERC20InsufficientBalance"
       ELSE "ok"

\* mutant: the available liquidity must exceed the amount
withdrawFromPoolError_Strict(sender, amount) ==
    LET lender == lenders[sender]
    IN IF paused THEN "EnforcedPause"
       ELSE IF ~(amount > 0) THEN "Amount must be > 0"
       ELSE IF ~(lender.depositedAmount >= amount)
       THEN "Insufficient balance"
       ELSE IF totalPoolLiquidity < totalActiveLoans
       THEN "Panic(0x11)"
       ELSE IF ~(totalPoolLiquidity - totalActiveLoans > amount)
       THEN "Insufficient pool liquidity"
       ELSE IF totalLenderDeposits < amount THEN "Panic(0x11)"
       ELSE IF balanceOf[Contract] < amount
       THEN "ERC20InsufficientBalance"
       ELSE "ok"

withdrawFromPoolError(sender, amount) ==
    LET lender == lenders[sender]
    IN IF paused THEN "EnforcedPause"
       ELSE IF ~(amount > 0) THEN "Amount must be > 0"
       ELSE IF ~(lender.depositedAmount >= amount)
       THEN "Insufficient balance"
       ELSE IF totalPoolLiquidity < totalActiveLoans
       THEN "Panic(0x11)"
       ELSE IF ~(totalPoolLiquidity - totalActiveLoans >= amount)
       THEN "Insufficient pool liquidity"
       ELSE IF totalLenderDeposits < amount THEN "Panic(0x11)"
       ELSE IF balanceOf[Contract] < amount
       THEN "ERC20InsufficientBalance"
       ELSE "ok"

\* mutant: the withdrawal is not taken off totalLenderDeposits
withdrawFromPool_KeepsTotalDeposits(sender, amount) ==
    IF withdrawFromPoolError(sender, amount) # "ok" THEN Revert
    ELSE /\ userProfiles' = trackWalletActivity(userProfiles, sender)
         /\ lenders' = [lenders EXCEPT ![sender].depositedAmount = @ - amount]
         /\ totalPoolLiquidity' = totalPoolLiquidity - amount
         /\ balanceOf' = [balanceOf EXCEPT ![Contract] = @ - amount,
                                           ![sender] = @ + amount]
         /\ UNCHANGED <<params, gov, activeLoans, vouches, now,
                        totalActiveLoans, totalDefaultedAmount,
                        totalInterestPool, totalLenderDeposits>>

\* mutant: the withdrawn tokens are not handed out
withdrawFromPool_NoTransfer(sender, amount) ==
    IF withdrawFromPoolError(sender, amount) # "ok" THEN Revert
    ELSE /\ userProfiles' = trackWalletActivity(userProfiles, sender)
         /\ lenders' = [lenders EXCEPT ![sender].depositedAmount = @ - amount]
         /\ totalPoolLiquidity' = totalPoolLiquidity - amount
         /\ totalLenderDeposits' = totalLenderDeposits - amount
         /\ UNCHANGED <<params, gov, activeLoans, vouches, now, balanceOf,
                        totalActiveLoans, totalDefaultedAmount,
                        totalInterestPool>>

withdrawFromPool(sender, amount) ==
    IF withdrawFromPoolError(sender, amount) # "ok" THEN Revert
    ELSE    /\ userProfiles' = trackWalletActivity(userProfiles, sender)
            /\ lenders' = [lenders EXCEPT
                              ![sender].depositedAmount = @ - amount]
            /\ totalPoolLiquidity' = totalPoolLiquidity - amount
            /\ totalLenderDeposits' = totalLenderDeposits - amount
            /\ balanceOf' = [balanceOf EXCEPT ![Contract] = @ - amount,
                                              ![sender] = @ + amount]
            /\ UNCHANGED <<params, gov, activeLoans, vouches, now,
                           totalActiveLoans, totalDefaultedAmount,
                           totalInterestPool>>

claimInterestError(sender) ==
    LET lender == lenders[sender]
        interestShare == _calculateInterestShare(sender)
    IN IF paused THEN "EnforcedPause"
       ELSE IF ~(lender.depositedAmount > 0) THEN "No deposits"
       ELSE IF ~(interestShare > 0) THEN "No interest to claim"
       ELSE IF totalInterestPool < interestShare THEN "Panic(0x11)"
       ELSE IF balanceOf[Contract] < interestShare
       THEN "ERC20InsufficientBalance"
       ELSE "ok"

\* mutant: the claimed share stays in the interest pool
claimInterest_KeepsPool(sender) ==
    LET interestShare == _calculateInterestShare(sender)
    IN IF claimInterestError(sender) # "ok" THEN Revert
       ELSE /\ userProfiles' = trackWalletActivity(userProfiles, sender)
            /\ lenders' = [lenders EXCEPT ![sender] =
                   [@ EXCEPT !.totalInterestEarned = @ + interestShare,
                             !.lastClaimTime = now]]
            /\ balanceOf' = [balanceOf EXCEPT ![Contract] = @ - interestShare,
                                              ![sender] = @ + interestShare]
            /\ UNCHANGED <<params, gov, activeLoans, vouches, now, pool>>

claimInterest(sender) ==
    LET lender == lenders[sender]
        interestShare == _calculateInterestShare(sender)
    IN IF claimInterestError(sender) # "ok" THEN Revert
       ELSE /\ userProfiles' = trackWalletActivity(userProfiles, sender)
            /\ lenders' = [lenders EXCEPT ![sender] =
                   [@ EXCEPT !.totalInterestEarned = @ + interestShare,
                             !.lastClaimTime = now]]
            /\ totalInterestPool' = totalInterestPool - interestShare
            /\ balanceOf' = [balanceOf EXCEPT ![Contract] = @ - interestShare,
                                              ![sender] = @ + interestShare]
            /\ UNCHANGED <<params, gov, activeLoans, vouches, now,
                           totalPoolLiquidity, totalActiveLoans,
                           totalDefaultedAmount, totalLenderDeposits>>

\* ------------------------------------------------------- borrower functions
\* mutant: the loan falls due the moment it is issued
_issueLoan_DueAtStart(borrower, amount, duration, trustScore, maturityLevel) ==
    LET interestRate == _calculateInterestRate(trustScore, maturityLevel)
        interestAmount == (amount * interestRate * duration)
                              \div (10000 * 365 * Day)
    IN [borrower |-> borrower,
        principal |-> amount,
        interestAmount |-> interestAmount,
        totalRepayment |-> amount + interestAmount,
        startTime |-> now,
        dueDate |-> now,
        duration |-> duration,
        status |-> "ACTIVE"]

\* _issueLoan: the loan slot written for `borrower`, whose trust score is
\* trustScore; the pool totals are still those before the loan
_issueLoan(borrower, amount, duration, trustScore, maturityLevel) ==
    LET interestRate == _calculateInterestRate(trustScore, maturityLevel)
        interestAmount == (amount * interestRate * duration)
                              \div (10000 * 365 * Day)
    IN [borrower |-> borrower,
        principal |-> amount,
        interestAmount |-> interestAmount,
        totalRepayment |-> amount + interestAmount,
        startTime |-> now,
        dueDate |-> now + duration,
        duration |-> duration,
        status |-> "ACTIVE"]

\* mutant: the cooldown ends on its last day
requestLoanError_CooldownInclusive(sender, amount, duration) ==
    LET tracked == trackWalletActivity(userProfiles, sender)[sender]
        \* Initialize new user
        user == IF tracked.trustScore = 0
                THEN [tracked EXCEPT !.trustScore = INITIAL_TRUST_SCORE]
                ELSE tracked
        maturity == WalletMaturityOf(user)
        maxLoan == _calculateBorrowingLimit(user.trustScore,
                                            maturity.maturityMultiplier)
    IN IF paused THEN "EnforcedPause"
       ELSE IF user.hasActiveLoan THEN "Already has active loan"
       ELSE IF ~(amount >= MIN_LOAN_AMOUNT) THEN "Amount below minimum"
       ELSE IF ~(duration >= MIN_LOAN_DURATION)
       THEN "Duration too short"
       ELSE IF ~(duration <= MAX_LOAN_DURATION)
       THEN "Duration too long"
       ELSE IF user.defaults > 0
               /\ ~(now >= user.lastDefaultTime + DEFAULT_COOLDOWN_PERIOD)
       THEN "Blocked due to recent default"
       ELSE IF ~(amount <= maxLoan)
       THEN "Amount exceeds trust/maturity limit"
       ELSE IF totalPoolLiquidity < totalActiveLoans
       THEN "Panic(0x11)"
       ELSE IF ~(totalPoolLiquidity - totalActiveLoans >= amount)
       THEN "Insufficient pool liquidity"
       ELSE IF balanceOf[Contract] < amount
       THEN "ERC20InsufficientBalance"
       ELSE "ok"

\* mutant: a borrower with an active loan is not turned away
requestLoanError_NoActiveCheck(sender, amount, duration) ==
    LET tracked == trackWalletActivity(userProfiles, sender)[sender]
        \* Initialize new user
        user == IF tracked.trustScore = 0
                THEN [tracked EXCEPT !.trustScore = INITIAL_TRUST_SCORE]
                ELSE tracked
        maturity == WalletMaturityOf(user)
        maxLoan == _calculateBorrowingLimit(user.trustScore,
                                            maturity.maturityMultiplier)
    IN IF paused THEN "EnforcedPause"
       ELSE IF ~(amount >= MIN_LOAN_AMOUNT) THEN "Amount below minimum"
       ELSE IF ~(duration >= MIN_LOAN_DURATION)
       THEN "Duration too short"
       ELSE IF ~(duration <= MAX_LOAN_DURATION)
       THEN "Duration too long"
       ELSE IF user.defaults > 0
               /\ ~(now > user.lastDefaultTime + DEFAULT_COOLDOWN_PERIOD)
       THEN "Blocked due to recent default"
       ELSE IF ~(amount <= maxLoan)
       THEN "Amount exceeds trust/maturity limit"
       ELSE IF totalPoolLiquidity < totalActiveLoans
       THEN "Panic(0x11)"
       ELSE IF ~(totalPoolLiquidity - totalActiveLoans >= amount)
       THEN "Insufficient pool liquidity"
       ELSE IF balanceOf[Contract] < amount
       THEN "ERC20InsufficientBalance"
       ELSE "ok"

\* mutant: the default cooldown is checked before the amount
requestLoanError_CooldownFirst(sender, amount, duration) ==
    LET tracked == trackWalletActivity(userProfiles, sender)[sender]
        \* Initialize new user
        user == IF tracked.trustScore = 0
                THEN [tracked EXCEPT !.trustScore = INITIAL_TRUST_SCORE]
                ELSE tracked
        maturity == WalletMaturityOf(user)
        maxLoan == _calculateBorrowingLimit(user.trustScore,
                                            maturity.maturityMultiplier)
    IN IF paused THEN "EnforcedPause"
       ELSE IF user.hasActiveLoan THEN "Already has active loan"
       ELSE IF user.defaults > 0
               /\ ~(now > user.lastDefaultTime + DEFAULT_COOLDOWN_PERIOD)
       THEN "Blocked due to recent default"
       ELSE IF ~(amount >= MIN_LOAN_AMOUNT) THEN "Amount below minimum"
       ELSE IF ~(duration >= MIN_LOAN_DURATION)
       THEN "Duration too short"
       ELSE IF ~(duration <= MAX_LOAN_DURATION)
       THEN "Duration too long"
       ELSE IF ~(amount <= maxLoan)
       THEN "Amount exceeds trust/maturity limit"
       ELSE IF totalPoolLiquidity < totalActiveLoans
       THEN "Panic(0x11)"
       ELSE IF ~(totalPoolLiquidity - totalActiveLoans >= amount)
       THEN "Insufficient pool liquidity"
       ELSE IF balanceOf[Contract] < amount
       THEN "ERC20InsufficientBalance"
       ELSE "ok"

requestLoanError(sender, amount, duration) ==
    LET tracked == trackWalletActivity(userProfiles, sender)[sender]
        \* Initialize new user
        user == IF tracked.trustScore = 0
                THEN [tracked EXCEPT !.trustScore = INITIAL_TRUST_SCORE]
                ELSE tracked
        maturity == WalletMaturityOf(user)
        maxLoan == _calculateBorrowingLimit(user.trustScore,
                                            maturity.maturityMultiplier)
    IN IF paused THEN "EnforcedPause"
       ELSE IF user.hasActiveLoan THEN "Already has active loan"
       ELSE IF ~(amount >= MIN_LOAN_AMOUNT) THEN "Amount below minimum"
       ELSE IF ~(duration >= MIN_LOAN_DURATION)
       THEN "Duration too short"
       ELSE IF ~(duration <= MAX_LOAN_DURATION)
       THEN "Duration too long"
       ELSE IF user.defaults > 0
               /\ ~(now > user.lastDefaultTime + DEFAULT_COOLDOWN_PERIOD)
       THEN "Blocked due to recent default"
       ELSE IF ~(amount <= maxLoan)
       THEN "Amount exceeds trust/maturity limit"
       ELSE IF totalPoolLiquidity < totalActiveLoans
       THEN "Panic(0x11)"
       ELSE IF ~(totalPoolLiquidity - totalActiveLoans >= amount)
       THEN "Insufficient pool liquidity"
       ELSE IF balanceOf[Contract] < amount
       THEN "ERC20InsufficientBalance"
       ELSE "ok"

\* mutant: a rejected request keeps the caller's activity tracking and the
\* initial trust score it wrote before the failing check
requestLoan_KeepsInit(sender, amount, duration) ==
    LET tracked == trackWalletActivity(userProfiles, sender)[sender]
        user == IF tracked.trustScore = 0
                THEN [tracked EXCEPT !.trustScore = INITIAL_TRUST_SCORE]
                ELSE tracked
        maturity == WalletMaturityOf(user)
    IN IF requestLoanError(sender, amount, duration) = "EnforcedPause"
       THEN Revert
       ELSE IF requestLoanError(sender, amount, duration) # "ok"
       THEN /\ userProfiles' = [userProfiles EXCEPT ![sender] = user]
            /\ UNCHANGED <<params, pool, gov, activeLoans, lenders, vouches,
                           balanceOf, now>>
       ELSE /\ activeLoans' = [activeLoans EXCEPT ![sender] =
                   _issueLoan(sender, amount, duration, user.trustScore,
                              maturity.maturityLevel)]
            /\ userProfiles' = [userProfiles EXCEPT ![sender] =
                   [user EXCEPT !.hasActiveLoan = TRUE,
                                !.totalLoansTaken = @ + 1]]
            /\ totalActiveLoans' = totalActiveLoans + amount
            /\ balanceOf' = [balanceOf EXCEPT ![Contract] = @ - amount,
                                              ![sender] = @ + amount]
            /\ UNCHANGED <<params, gov, lenders, vouches, now,
                           totalPoolLiquidity, totalDefaultedAmount,
                           totalInterestPool, totalLenderDeposits>>

requestLoan(sender, amount, duration) ==
    LET tracked == trackWalletActivity(userProfiles, sender)[sender]
        \* Initialize new user
        user == IF tracked.trustScore = 0
                THEN [tracked EXCEPT !.trustScore = INITIAL_TRUST_SCORE]
                ELSE tracked
        maturity == WalletMaturityOf(user)
        maxLoan == _calculateBorrowingLimit(user.trustScore,
                                            maturity.maturityMultiplier)
    IN IF requestLoanError(sender, amount, duration) # "ok" THEN Revert
       ELSE /\ activeLoans' = [activeLoans EXCEPT ![sender] =
                   _issueLoan(sender, amount, duration, user.trustScore,
                              maturity.maturityLevel)]
            /\ userProfiles' = [userProfiles EXCEPT ![sender] =
                   [user EXCEPT !.hasActiveLoan = TRUE,
                                !.totalLoansTaken = @ + 1]]
            /\ totalActiveLoans' = totalActiveLoans + amount
            /\ balanceOf' = [balanceOf EXCEPT ![Contract] = @ - amount,
                                              ![sender] = @ + amount]
            /\ UNCHANGED <<params, gov, lenders, vouches, now,
                           totalPoolLiquidity, totalDefaultedAmount,
                           totalInterestPool, totalLenderDeposits>>

\* mutant: a loan past its due date can no longer be repaid
repayLoanError_DueDateGuard(sender) ==
    LET loan == activeLoans[sender]
        user == userProfiles[sender]
        principal == loan.principal
        totalRepayment == loan.totalRepayment
    IN IF paused THEN "EnforcedPause"
       ELSE IF ~user.hasActiveLoan THEN "No active loan"
       ELSE IF loan.status # "ACTIVE" THEN "Loan not active"
       ELSE IF now > loan.dueDate THEN "Loan overdue"
       ELSE IF balanceOf[sender] < totalRepayment
       THEN "ERC20InsufficientBalance"
       ELSE IF totalActiveLoans < principal THEN "Panic(0x11)"
       ELSE "ok"

\* mutant: repayLoan without whenNotPaused
repayLoanError_NoPause(sender) ==
    LET loan == activeLoans[sender]
        user == userProfiles[sender]
    IN IF ~user.hasActiveLoan THEN "No active loan"
       ELSE IF loan.status # "ACTIVE" THEN "Loan not active"
       ELSE IF balanceOf[sender] < loan.totalRepayment
       THEN "ERC20InsufficientBalance"
       ELSE IF totalActiveLoans < loan.principal THEN "Panic(0x11)"
       ELSE "ok"

repayLoanError(sender) ==
    LET loan == activeLoans[sender]
        user == userProfiles[sender]
        principal == loan.principal
        interest == loan.interestAmount
        totalRepayment == loan.totalRepayment
    IN IF paused THEN "EnforcedPause"
       ELSE IF ~user.hasActiveLoan THEN "No active loan"
       ELSE IF loan.status # "ACTIVE" THEN "Loan not active"
       ELSE IF balanceOf[sender] < totalRepayment
       THEN "ERC20InsufficientBalance"
       ELSE IF totalActiveLoans < principal THEN "Panic(0x11)"
       ELSE "ok"

\* mutant: the interest is booked as pool liquidity
repayLoan_InterestToLiquidity(sender) ==
    LET loan == activeLoans[sender]
        tracked == trackWalletActivity(userProfiles, sender)[sender]
        repaid == [tracked EXCEPT !.hasActiveLoan = FALSE,
                                  !.successfulRepayments = @ + 1]
    IN IF repayLoanError(sender) # "ok" THEN Revert
       ELSE /\ balanceOf' = [balanceOf EXCEPT
                                ![sender] = @ - loan.totalRepayment,
                                ![Contract] = @ + loan.totalRepayment]
            /\ activeLoans' = [activeLoans EXCEPT ![sender].status = "REPAID"]
            /\ userProfiles' = [userProfiles EXCEPT ![sender] =
                   [repaid EXCEPT !.trustScore = _increaseTrustScore(repaid)]]
            /\ totalActiveLoans' = totalActiveLoans - loan.principal
            /\ totalPoolLiquidity' = totalPoolLiquidity + loan.interestAmount
            /\ UNCHANGED <<params, gov, lenders, vouches, now,
                           totalInterestPool, totalDefaultedAmount,
                           totalLenderDeposits>>

\* mutant: the repaid principal stays in totalActiveLoans
repayLoan_KeepsPrincipal(sender) ==
    LET loan == activeLoans[sender]
        user == userProfiles[sender]
        principal == loan.principal
        interest == loan.interestAmount
        totalRepayment == loan.totalRepayment
        tracked == trackWalletActivity(userProfiles, sender)[sender]
        repaid == [tracked EXCEPT !.hasActiveLoan = FALSE,
                                  !.successfulRepayments = @ + 1]
    IN IF repayLoanError(sender) # "ok" THEN Revert
       ELSE /\ balanceOf' = [balanceOf EXCEPT ![sender] = @ - totalRepayment,
                                              ![Contract] = @ + totalRepayment]
            /\ activeLoans' = [activeLoans EXCEPT ![sender].status = "REPAID"]
            /\ userProfiles' = [userProfiles EXCEPT ![sender] =
                   [repaid EXCEPT !.trustScore = _increaseTrustScore(repaid)]]
            /\ totalInterestPool' = totalInterestPool + interest
            /\ UNCHANGED <<params, gov, lenders, vouches, now, totalActiveLoans,
                           totalPoolLiquidity, totalDefaultedAmount,
                           totalLenderDeposits>>

\* mutant: the repayment is not counted
repayLoan_NoCount(sender) ==
    LET loan == activeLoans[sender]
        user == userProfiles[sender]
        principal == loan.principal
        interest == loan.interestAmount
        totalRepayment == loan.totalRepayment
        tracked == trackWalletActivity(userProfiles, sender)[sender]
        repaid == [tracked EXCEPT !.hasActiveLoan = FALSE]
    IN IF repayLoanError(sender) # "ok" THEN Revert
       ELSE /\ balanceOf' = [balanceOf EXCEPT ![sender] = @ - totalRepayment,
                                              ![Contract] = @ + totalRepayment]
            /\ activeLoans' = [activeLoans EXCEPT ![sender].status = "REPAID"]
            /\ userProfiles' = [userProfiles EXCEPT ![sender] =
                   [repaid EXCEPT !.trustScore = _increaseTrustScore(repaid)]]
            /\ totalActiveLoans' = totalActiveLoans - principal
            /\ totalInterestPool' = totalInterestPool + interest
            /\ UNCHANGED <<params, gov, lenders, vouches, now,
                           totalPoolLiquidity, totalDefaultedAmount,
                           totalLenderDeposits>>

repayLoan(sender) ==
    LET loan == activeLoans[sender]
        user == userProfiles[sender]
        principal == loan.principal
        interest == loan.interestAmount
        totalRepayment == loan.totalRepayment
        tracked == trackWalletActivity(userProfiles, sender)[sender]
        repaid == [tracked EXCEPT !.hasActiveLoan = FALSE,
                                  !.successfulRepayments = @ + 1]
    IN IF repayLoanError(sender) # "ok" THEN Revert
       ELSE /\ balanceOf' = [balanceOf EXCEPT ![sender] = @ - totalRepayment,
                                              ![Contract] = @ + totalRepayment]
            /\ activeLoans' = [activeLoans EXCEPT ![sender].status = "REPAID"]
            /\ userProfiles' = [userProfiles EXCEPT ![sender] =
                   [repaid EXCEPT !.trustScore = _increaseTrustScore(repaid)]]
            /\ totalActiveLoans' = totalActiveLoans - principal
            /\ totalInterestPool' = totalInterestPool + interest
            /\ UNCHANGED <<params, gov, lenders, vouches, now,
                           totalPoolLiquidity, totalDefaultedAmount,
                           totalLenderDeposits>>

\* mutants: no check that the loan is active / a loan due now is overdue
markDefaultError_NoGuards(sender, borrower) ==
    LET loan == activeLoans[borrower]
        lostAmount == loan.principal
    IN IF ~(now > loan.dueDate) THEN "Not overdue yet"
       ELSE IF totalActiveLoans < lostAmount THEN "Panic(0x11)"
       ELSE IF totalPoolLiquidity < lostAmount THEN "Panic(0x11)"
       ELSE "ok"

markDefaultError_Inclusive(sender, borrower) ==
    LET loan == activeLoans[borrower]
        user == userProfiles[borrower]
        lostAmount == loan.principal
    IN IF ~user.hasActiveLoan THEN "No active loan"
       ELSE IF loan.status # "ACTIVE" THEN "Loan not active"
       ELSE IF ~(now >= loan.dueDate) THEN "Not overdue yet"
       ELSE IF totalActiveLoans < lostAmount THEN "Panic(0x11)"
       ELSE IF totalPoolLiquidity < lostAmount THEN "Panic(0x11)"
       ELSE "ok"

markDefaultError(sender, borrower) ==
    LET loan == activeLoans[borrower]
        user == userProfiles[borrower]
        lostAmount == loan.principal
    IN IF ~user.hasActiveLoan THEN "No active loan"
       ELSE IF loan.status # "ACTIVE" THEN "Loan not active"
       ELSE IF ~(now > loan.dueDate) THEN "Not overdue yet"
       ELSE IF totalActiveLoans < lostAmount THEN "Panic(0x11)"
       ELSE IF totalPoolLiquidity < lostAmount THEN "Panic(0x11)"
       ELSE "ok"

\* mutants: the default leaves hasActiveLoan set / is not counted
DefaultedProfile_KeepsFlag(user) ==
    [user EXCEPT !.defaults = @ + 1,
                 !.lastDefaultTime = now]

DefaultedProfile_NoCount(user) ==
    [user EXCEPT !.hasActiveLoan = FALSE,
                 !.lastDefaultTime = now]

\* the borrower's profile after a default (trust score not yet lowered)
DefaultedProfile(user) ==
    [user EXCEPT !.hasActiveLoan = FALSE,
                 !.defaults = @ + 1,
                 !.lastDefaultTime = now]

\* mutants: the loss is not taken off the liquidity / off the active loans
LossAbsorption_KeepsLiquidity(lostAmount) ==
    [totalActiveLoans |-> totalActiveLoans - lostAmount,
     totalPoolLiquidity |-> totalPoolLiquidity,
     totalDefaultedAmount |-> totalDefaultedAmount + lostAmount]

LossAbsorption_KeepsActiveLoans(lostAmount) ==
    [totalActiveLoans |-> totalActiveLoans,
     totalPoolLiquidity |-> totalPoolLiquidity - lostAmount,
     totalDefaultedAmount |-> totalDefaultedAmount + lostAmount]

\* "Pool absorbs loss": the pool totals after a default of lostAmount
LossAbsorption(lostAmount) ==
    [totalActiveLoans |-> totalActiveLoans - lostAmount,
     totalPoolLiquidity |-> totalPoolLiquidity - lostAmount,
     totalDefaultedAmount |-> totalDefaultedAmount + lostAmount]

markDefault(sender, borrower) ==
    LET loan == activeLoans[borrower]
        lostAmount == loan.principal
        defaulted == DefaultedProfile(userProfiles[borrower])
        absorbed == LossAbsorption(lostAmount)
    IN IF markDefaultError(sender, borrower) # "ok" THEN Revert
       ELSE /\ activeLoans' = [activeLoans EXCEPT
                                  ![borrower].status = "DEFAULTED"]
            /\ userProfiles' = [userProfiles EXCEPT ![borrower] =
                   [defaulted EXCEPT
                       !.trustScore = _decreaseTrustScore(defaulted)]]
            /\ totalActiveLoans' = absorbed.totalActiveLoans
            /\ totalPoolLiquidity' = absorbed.totalPoolLiquidity
            /\ totalDefaultedAmount' = absorbed.totalDefaultedAmount
            /\ UNCHANGED <<params, gov, lenders, vouches, balanceOf, now,
                           totalInterestPool, totalLenderDeposits>>

\* ------------------------------------------------------------ trust functions
\* mutant: a recorded vouch does not stop another
vouchForUserError_NoRepeatCheck(sender, vouchee) ==
    LET voucher == trackWalletActivity(userProfiles, sender)[sender]
    IN IF ~(voucher.trustScore >= 500) THEN "Insufficient trust"
       ELSE IF ~(voucher.successfulRepayments >= 2)
       THEN "Need 2+ repayments"
       ELSE IF ~(vouchee # sender) THEN "Cannot vouch yourself"
       ELSE "ok"

vouchForUserError(sender, vouchee) ==
    LET tracked == trackWalletActivity(userProfiles, sender)
        voucher == tracked[sender]
        voucheeProfile == tracked[vouchee]
    IN IF ~(voucher.trustScore >= 500) THEN "Insufficient trust"
       ELSE IF ~(voucher.successfulRepayments >= 2)
       THEN "Need 2+ repayments"
       ELSE IF vouches[sender][vouchee] THEN "Already vouched"
       ELSE IF ~(vouchee # sender) THEN "Cannot vouch yourself"
       ELSE "ok"

\* mutant: the vouchee gains 30 whatever their score
vouchForUser_AlwaysAdds(sender, vouchee) ==
    LET tracked == trackWalletActivity(userProfiles, sender)
        voucheeProfile == tracked[vouchee]
    IN IF vouchForUserError(sender, vouchee) # "ok" THEN Revert
       ELSE /\ vouches' = [vouches EXCEPT ![sender][vouchee] = TRUE]
            /\ userProfiles' = [tracked EXCEPT ![vouchee].trustScore =
                   IF voucheeProfile.trustScore = 0
                   THEN INITIAL_TRUST_SCORE + 50
                   ELSE @ + 30]
            /\ UNCHANGED <<params, pool, gov, activeLoans, lenders,
                           balanceOf, now>>

vouchForUser(sender, vouchee) ==
    LET tracked == trackWalletActivity(userProfiles, sender)
        voucher == tracked[sender]
        voucheeProfile == tracked[vouchee]
    IN IF vouchForUserError(sender, vouchee) # "ok" THEN Revert
       ELSE /\ vouches' = [vouches EXCEPT ![sender][vouchee] = TRUE]
            /\ userProfiles' = [tracked EXCEPT ![vouchee].trustScore =
                   IF voucheeProfile.trustScore = 0
                   THEN INITIAL_TRUST_SCORE + 50
                   ELSE IF voucheeProfile.trustScore < 300
                   THEN @ + 30
                   ELSE @]
            /\ UNCHANGED <<params, pool, gov, activeLoans, lenders,
                           balanceOf, now>>

\* ------------------------------------------------------------- governance
\* mutant: the DAO can be enabled again
enableDAOError_NoEnabledCheck(sender, _daoAddress) ==
    IF sender # Owner THEN "OwnableUnauthorizedAccount"
       ELSE IF ~(_daoAddress # ZeroAddress) THEN "Invalid DAO address"
       ELSE "ok"

enableDAOError(sender, _daoAddress) ==
    IF sender # Owner THEN "OwnableUnauthorizedAccount"
       ELSE IF daoEnabled THEN "DAO already enabled"
       ELSE IF ~(_daoAddress # ZeroAddress) THEN "Invalid DAO address"
       ELSE "ok"

enableDAO(sender, _daoAddress) ==
    IF enableDAOError(sender, _daoAddress) # "ok" THEN Revert
    ELSE /\ daoAddress' = _daoAddress
         /\ daoEnabled' = TRUE
         /\ UNCHANGED <<params, pool, maps, balanceOf, paused, now>>

updateTrustParametersError(sender, _increasePerRepayment, _decreaseOnDefault) ==
    IF ~onlyAdminOrDAO(sender) THEN "Not authorized"
       ELSE IF ~(_increasePerRepayment > 0
               /\ _increasePerRepayment <= 100)
       THEN "Invalid increase"
       ELSE IF ~(_decreaseOnDefault > 0 /\ _decreaseOnDefault <= 500)
       THEN "Invalid decrease"
       ELSE "ok"

updateTrustParameters(sender, _increasePerRepayment, _decreaseOnDefault) ==
    IF updateTrustParametersError(sender, _increasePerRepayment, _decreaseOnDefault) # "ok" THEN Revert
    ELSE /\ TRUST_INCREASE_PER_REPAYMENT' = _increasePerRepayment
         /\ TRUST_DECREASE_ON_DEFAULT' = _decreaseOnDefault
         /\ UNCHANGED <<MIN_LOAN_AMOUNT,
                        BASE_INTEREST_RATE, MAX_INTEREST_RATE,
                        MIN_LOAN_DURATION, MAX_LOAN_DURATION,
                        DEFAULT_COOLDOWN_PERIOD, LOW_TRUST_LIMIT,
                        MED_TRUST_LIMIT, HIGH_TRUST_LIMIT,
                        pool, gov, maps, balanceOf, now>>

\* mutant: the maximum rate has no cap
updateInterestRatesError_NoCap(sender, _baseRate, _maxRate) ==
    IF ~onlyAdminOrDAO(sender) THEN "Not authorized"
       ELSE IF ~(_baseRate < _maxRate)
       THEN "Base must be less than max"
       ELSE "ok"

updateInterestRatesError(sender, _baseRate, _maxRate) ==
    IF ~onlyAdminOrDAO(sender) THEN "Not authorized"
       ELSE IF ~(_baseRate < _maxRate)
       THEN "Base must be less than max"
       ELSE IF ~(_maxRate <= 5000) THEN "Max rate too high"
       ELSE "ok"

updateInterestRates(sender, _baseRate, _maxRate) ==
    IF updateInterestRatesError(sender, _baseRate, _maxRate) # "ok" THEN Revert
    ELSE /\ BASE_INTEREST_RATE' = _baseRate
         /\ MAX_INTEREST_RATE' = _maxRate
         /\ UNCHANGED <<MIN_LOAN_AMOUNT,
                        TRUST_INCREASE_PER_REPAYMENT,
                        TRUST_DECREASE_ON_DEFAULT,
                        MIN_LOAN_DURATION, MAX_LOAN_DURATION,
                        DEFAULT_COOLDOWN_PERIOD, LOW_TRUST_LIMIT,
                        MED_TRUST_LIMIT, HIGH_TRUST_LIMIT,
                        pool, gov, maps, balanceOf, now>>

updateBorrowingLimitsError(sender, _lowTrust, _medTrust, _highTrust) ==
    IF ~onlyAdminOrDAO(sender) THEN "Not authorized"
       ELSE IF ~(_lowTrust < _medTrust /\ _medTrust < _highTrust)
       THEN "Invalid limit progression"
       ELSE "ok"

updateBorrowingLimits(sender, _lowTrust, _medTrust, _highTrust) ==
    IF updateBorrowingLimitsError(sender, _lowTrust, _medTrust, _highTrust) # "ok" THEN Revert
    ELSE /\ LOW_TRUST_LIMIT' = _lowTrust
         /\ MED_TRUST_LIMIT' = _medTrust
         /\ HIGH_TRUST_LIMIT' = _highTrust
         /\ UNCHANGED <<MIN_LOAN_AMOUNT,
                        TRUST_INCREASE_PER_REPAYMENT,
                        TRUST_DECREASE_ON_DEFAULT,
                        BASE_INTEREST_RATE, MAX_INTEREST_RATE,
                        MIN_LOAN_DURATION, MAX_LOAN_DURATION,
                        DEFAULT_COOLDOWN_PERIOD,
                        pool, gov, maps, balanceOf, now>>

\* mutant: a minimum equal to the maximum is accepted
updateLoanDurationLimitsError_AllowsEqual(sender, _minDuration, _maxDuration) ==
    IF ~onlyAdminOrDAO(sender) THEN "Not authorized"
       ELSE IF ~(_minDuration >= 1 * Day) THEN "Min duration too short"
       ELSE IF ~(_maxDuration <= 365 * Day)
       THEN "Max duration too long"
       ELSE IF ~(_minDuration <= _maxDuration)
       THEN "Min must be less than max"
       ELSE "ok"

updateLoanDurationLimitsError(sender, _minDuration, _maxDuration) ==
    IF ~onlyAdminOrDAO(sender) THEN "Not authorized"
       ELSE IF ~(_minDuration >= 1 * Day) THEN "Min duration too short"
       ELSE IF ~(_maxDuration <= 365 * Day)
       THEN "Max duration too long"
       ELSE IF ~(_minDuration < _maxDuration)
       THEN "Min must be less than max"
       ELSE "ok"

updateLoanDurationLimits(sender, _minDuration, _maxDuration) ==
    IF updateLoanDurationLimitsError(sender, _minDuration, _maxDuration) # "ok" THEN Revert
    ELSE /\ MIN_LOAN_DURATION' = _minDuration
         /\ MAX_LOAN_DURATION' = _maxDuration
         /\ UNCHANGED <<MIN_LOAN_AMOUNT,
                        TRUST_INCREASE_PER_REPAYMENT,
                        TRUST_DECREASE_ON_DEFAULT,
                        BASE_INTEREST_RATE, MAX_INTEREST_RATE,
                        DEFAULT_COOLDOWN_PERIOD, LOW_TRUST_LIMIT,
                        MED_TRUST_LIMIT, HIGH_TRUST_LIMIT,
                        pool, gov, maps, balanceOf, now>>

updateDefaultCooldownError(sender, _newPeriod) ==
    IF ~onlyAdminOrDAO(sender) THEN "Not authorized"
       ELSE IF ~(_newPeriod >= 7 * Day /\ _newPeriod <= 180 * Day)
       THEN "Invalid cooldown"
       ELSE "ok"

updateDefaultCooldown(sender, _newPeriod) ==
    IF updateDefaultCooldownError(sender, _newPeriod) # "ok" THEN Revert
    ELSE /\ DEFAULT_COOLDOWN_PERIOD' = _newPeriod
         /\ UNCHANGED <<MIN_LOAN_AMOUNT,
                        TRUST_INCREASE_PER_REPAYMENT,
                        TRUST_DECREASE_ON_DEFAULT,
                        BASE_INTEREST_RATE, MAX_INTEREST_RATE,
                        MIN_LOAN_DURATION, MAX_LOAN_DURATION,
                        LOW_TRUST_LIMIT, MED_TRUST_LIMIT, HIGH_TRUST_LIMIT,
                        pool, gov, maps, balanceOf, now>>

\* ---------------------------------------------------------- admin functions
pauseError(sender) ==
    IF sender # Owner THEN "OwnableUnauthorizedAccount"
       ELSE IF paused THEN "EnforcedPause"
       ELSE "ok"

pause(sender) ==
    IF pauseError(sender) # "ok" THEN Revert
    ELSE /\ paused' = TRUE
         /\ UNCHANGED <<params, pool, maps, balanceOf, daoAddress,
                        daoEnabled, now>>

unpauseError(sender) ==
    IF sender # Owner THEN "OwnableUnauthorizedAccount"
       ELSE IF ~paused THEN "ExpectedPause"
       ELSE "ok"

unpause(sender) ==
    IF unpauseError(sender) # "ok" THEN Revert
    ELSE /\ paused' = FALSE
         /\ UNCHANGED <<params, pool, maps, balanceOf, daoAddress,
                        daoEnabled, now>>

\* ------------------------------------------------------------ view functions
getPoolStats ==
    [totalLiquidity |-> totalPoolLiquidity,
     totalActiveLoanAmount |-> totalActiveLoans,
     availableLiquidity |-> IF totalPoolLiquidity > totalActiveLoans
                            THEN totalPoolLiquidity - totalActiveLoans ELSE 0,
     utilizationRate |-> IF totalPoolLiquidity > 0
                         THEN (totalActiveLoans * 10000) \div totalPoolLiquidity
                         ELSE 0,
     interestPool |-> totalInterestPool,
     totalDefaulted |-> totalDefaultedAmount]

getActiveLoan(borrower) ==
    LET loan == activeLoans[borrower]
    IN [principal |-> loan.principal,
        interestAmount |-> loan.interestAmount,
        totalRepayment |-> loan.totalRepayment,
        dueDate |-> loan.dueDate,
        duration |-> loan.duration,
        status |-> loan.status,
        isOverdue |-> now > loan.dueDate /\ loan.status = "ACTIVE"]

\* ------------------------------------------------------------------- clock
\* block.timestamp moves on between transactions
AdvanceTime(maxTime) ==
    /\ now + Day <= maxTime
    /\ now' = now + Day
    /\ UNCHANGED ledger

getUserProfile(user) ==
    LET profile == userProfiles[user]
        maturity == getWalletMaturity(user)
        trust == IF profile.trustScore = 0 THEN INITIAL_TRUST_SCORE
                 ELSE profile.trustScore
    IN [trustScore |-> trust,
        totalLoansTaken |-> profile.totalLoansTaken,
        successfulRepayments |-> profile.successfulRepayments,
        defaults |-> profile.defaults,
        hasActiveLoan |-> profile.hasActiveLoan,
        walletAge |-> maturity.age,
        maturityLevel |-> maturity.maturityLevel,
        maxBorrowingLimit |->
            _calculateBorrowingLimit(trust, maturity.maturityMultiplier)]

\* several days pass at once (the tests' advanceTime(days))
AdvanceDays(days, maxTime) ==
    /\ now + days * Day <= maxTime
    /\ now' = now + days * Day
    /\ UNCHANGED ledger

\* the model's bound on the tracked transactions of a run
RECURSIVE TotalTransactions(_, _)
TotalTransactions(profiles, S) ==
    IF S = {} THEN 0
    ELSE LET u == CHOOSE x \in S : TRUE
         IN profiles[u].totalTransactions + TotalTransactions(profiles, S \ {u})

WithinTx(maxTx) == TotalTransactions(userProfiles', Users) <= maxTx

\* Spec: two lenders, one borrower, anyone marking defaults, the owner's
\* emergency switch and the trust parameters.
Next ==
    \/ AdvanceTime(MaxTime)
    \/ \E c \in Lenders, a \in DepositAmounts :
          depositToPool(c, a) /\ WithinTx(MaxTx)
    \/ \E c \in Lenders, a \in DepositAmounts :
          withdrawFromPool(c, a) /\ WithinTx(MaxTx)
    \/ \E c \in Lenders : claimInterest(c) /\ WithinTx(MaxTx)
    \/ \E c \in Borrowers, a \in LoanAmounts, d \in Durations :
          requestLoan(c, a, d) /\ WithinTx(MaxTx)
    \/ \E c \in Borrowers : repayLoan(c) /\ WithinTx(MaxTx)
    \/ \E c \in Users, b \in Users : markDefault(c, b)
    \/ \E c \in Borrowers, v \in Users :
          vouchForUser(c, v) /\ WithinTx(MaxTx)
    \/ \E c \in Users : pause(c)
    \/ \E c \in Users : unpause(c)
    \/ \E c \in Users, p \in TrustInputs :
          updateTrustParameters(c, p[1], p[2])

Spec == Init /\ [][Next]_vars

\* SpecTrust: "alice" funds the pool and "bob" borrows, repays, defaults and
\* vouches over a long history.
NextTrust ==
    \/ AdvanceTime(MaxTime)
    \/ depositToPool("alice", 2 * MIN_LOAN_AMOUNT) /\ WithinTx(MaxTxTrust)
    \/ requestLoan("bob", MIN_LOAN_AMOUNT, Day) /\ WithinTx(MaxTxTrust)
    \/ repayLoan("bob") /\ WithinTx(MaxTxTrust)
    \/ \E c \in Users : markDefault(c, "bob")
    \/ \E v \in Users : vouchForUser("bob", v) /\ WithinTx(MaxTxTrust)
    \/ \E c \in Users, p \in TrustInputs :
          updateTrustParameters(c, p[1], p[2])

SpecTrust == Init /\ [][NextTrust]_vars

\* SpecCooldown: "alice" funds the pool and "bob" borrows again after a
\* default, once the (shortened) cooldown has passed.
NextCooldown ==
    \/ AdvanceTime(MaxTimeCooldown)
    \/ depositToPool("alice", 2 * MIN_LOAN_AMOUNT) /\ WithinTx(MaxTx)
    \/ requestLoan("bob", MIN_LOAN_AMOUNT, Day) /\ WithinTx(MaxTx)
    \/ repayLoan("bob") /\ WithinTx(MaxTx)
    \/ \E c \in Users : markDefault(c, "bob")
    \/ \E c \in Users, p \in TrustInputs :
          updateTrustParameters(c, p[1], p[2])
    \/ \E c \in Users, p \in CooldownInputs : updateDefaultCooldown(c, p)

SpecCooldown == Init /\ [][NextCooldown]_vars

\* SpecLoan: the life of a loan.  The lenders fund the pool and withdraw
\* from it, "bob" borrows and repays, anyone marks defaults, and the owner's
\* emergency switch goes on and off.
NextLoan ==
    \/ AdvanceTime(MaxTime)
    \/ \E c \in Lenders :
          depositToPool(c, 2 * MIN_LOAN_AMOUNT) /\ WithinTx(MaxTx)
    \/ \E c \in Lenders :
          withdrawFromPool(c, 2 * MIN_LOAN_AMOUNT) /\ WithinTx(MaxTx)
    \/ \E a \in LoanAmounts, d \in Durations :
          requestLoan("bob", a, d) /\ WithinTx(MaxTx)
    \/ repayLoan("bob") /\ WithinTx(MaxTx)
    \/ \E c \in Users, b \in Users : markDefault(c, b)
    \/ \E c \in Users : pause(c)
    \/ \E c \in Users : unpause(c)

SpecLoan == Init /\ [][NextLoan]_vars

\* SpecRate: the owner funds the pool, "alice" takes a loan and keeps it,
\* and "bob" borrows and repays again and again while the interest rates
\* and the trust increase are changed and a week passes.
NextRate ==
    \/ AdvanceDays(7, MaxTimeRate)
    \/ depositToPool(Owner, 2 * MIN_LOAN_AMOUNT) /\ WithinTx(MaxTxRate)
    \/ requestLoan("alice", MIN_LOAN_AMOUNT, Day) /\ WithinTx(MaxTxRate)
    \/ requestLoan("bob", MIN_LOAN_AMOUNT, 7 * Day) /\ WithinTx(MaxTxRate)
    \/ repayLoan("bob") /\ WithinTx(MaxTxRate)
    \/ \E c \in {Owner, "bob"}, p \in RateInputs :
          updateInterestRates(c, p[1], p[2])
    \/ updateTrustParameters(Owner, 100, 60)

SpecRate == Init /\ [][NextRate]_vars

\* SpecMaturity: "alice" is first seen on some day, and her wallet ages.
NextMaturity ==
    \/ AdvanceTime(MaxTimeMaturity)
    \/ depositToPool("alice", 2 * MIN_LOAN_AMOUNT)

SpecMaturity == Init /\ [][NextMaturity]_vars

\* SpecLimit: the lenders fund the pool and "bob" asks for loans of several
\* sizes, repays them and gains trust while the borrowing limits are
\* changed, a week passes and the contract is paused and unpaused.
NextLimit ==
    \/ AdvanceDays(7, MaxTimeLimit)
    \/ \E c \in Lenders :
          depositToPool(c, 2 * MIN_LOAN_AMOUNT) /\ WithinTx(MaxTxLimit)
    \/ \E a \in LoanAmounts, d \in Durations :
          requestLoan("bob", a, d) /\ WithinTx(MaxTxLimit)
    \/ repayLoan("bob") /\ WithinTx(MaxTxLimit)
    \/ \E c \in {Owner, "bob"}, p \in LimitInputs :
          updateBorrowingLimits(c, p[1], p[2], p[3])
    \/ updateTrustParameters(Owner, 100, 60)
    \/ pause(Owner)
    \/ unpause(Owner)

SpecLimit == Init /\ [][NextLimit]_vars

\* SpecPool: the lenders deposit, withdraw and claim interest, with amounts
\* of nothing and of 0.02 ether, while "bob" borrows, repays or defaults
\* and the owner pauses and unpauses the contract.
NextPool ==
    \/ AdvanceTime(MaxTime)
    \/ \E c \in Lenders, a \in DepositAmounts :
          depositToPool(c, a) /\ WithinTx(MaxTx)
    \/ \E c \in Lenders, a \in DepositAmounts :
          withdrawFromPool(c, a) /\ WithinTx(MaxTx)
    \/ \E c \in Lenders : claimInterest(c) /\ WithinTx(MaxTx)
    \/ \E a \in {MIN_LOAN_AMOUNT, 2 * MIN_LOAN_AMOUNT} :
          requestLoan("bob", a, Day) /\ WithinTx(MaxTx)
    \/ repayLoan("bob") /\ WithinTx(MaxTx)
    \/ markDefault("alice", "bob")
    \/ pause(Owner)
    \/ unpause(Owner)

SpecPool == Init /\ [][NextPool]_vars

\* SpecInterest: the owner deposits 0.01 ether and "alice" twice as much,
\* both withdraw and claim interest, and "bob" pays interest into the pool
\* with loans of two sizes, or defaults, while the owner
\* pauses and unpauses the contract.
NextInterest ==
    \/ AdvanceTime(MaxTime)
    \/ depositToPool(Owner, MIN_LOAN_AMOUNT) /\ WithinTx(MaxTxInterest)
    \/ depositToPool("alice", 2 * MIN_LOAN_AMOUNT) /\ WithinTx(MaxTxInterest)
    \/ \E c \in Lenders :
          withdrawFromPool(c, MIN_LOAN_AMOUNT) /\ WithinTx(MaxTxInterest)
    \/ \E c \in Users : claimInterest(c) /\ WithinTx(MaxTxInterest)
    \/ \E a \in {MIN_LOAN_AMOUNT, 2 * MIN_LOAN_AMOUNT} :
          requestLoan("bob", a, Day) /\ WithinTx(MaxTxInterest)
    \/ repayLoan("bob") /\ WithinTx(MaxTxInterest)
    \/ markDefault("alice", "bob")
    \/ pause(Owner)
    \/ unpause(Owner)

SpecInterest == Init /\ [][NextInterest]_vars

\* SpecLedger: every kind of operation on one ledger.  "alice" deposits,
\* withdraws and claims interest; "bob" borrows and repays until he may
\* vouch for her, or defaults; the owner changes each group of parameters;
\* two days pass at a time.
NextLedger ==
    \/ AdvanceDays(2, MaxTime)
    \/ depositToPool("alice", 2 * MIN_LOAN_AMOUNT) /\ WithinTx(MaxTxLedger)
    \/ withdrawFromPool("alice", 2 * MIN_LOAN_AMOUNT) /\ WithinTx(MaxTxLedger)
    \/ claimInterest("alice") /\ WithinTx(MaxTxLedger)
    \/ requestLoan("bob", MIN_LOAN_AMOUNT, Day) /\ WithinTx(MaxTxLedger)
    \/ repayLoan("bob") /\ WithinTx(MaxTxLedger)
    \/ markDefault("alice", "bob")
    \/ vouchForUser("bob", "alice") /\ WithinTx(MaxTxLedger)
    \/ updateTrustParameters(Owner, 100, 60)
    \/ updateInterestRates(Owner, 1000, 5000)
    \/ updateBorrowingLimits(Owner, Ether \div 20, Ether \div 2, Ether)
    \/ updateLoanDurationLimits(Owner, Day, 365 * Day)
    \/ updateDefaultCooldown(Owner, 7 * Day)

SpecLedger == Init /\ [][NextLedger]_vars

\* SpecGov: governance.  Any user tries to enable the DAO, to change each
\* group of parameters and to pause or unpause the contract.
NextGov ==
    \/ \E c \in Users, d \in GovDaoCandidates : enableDAO(c, d)
    \/ \E c \in Users, p \in GovTrustInputs :
          updateTrustParameters(c, p[1], p[2])
    \/ \E c \in Users, p \in GovRateInputs :
          updateInterestRates(c, p[1], p[2])
    \/ \E c \in Users, p \in GovLimitInputs :
          updateBorrowingLimits(c, p[1], p[2], p[3])
    \/ \E c \in Users, p \in GovDurationInputs :
          updateLoanDurationLimits(c, p[1], p[2])
    \/ \E c \in Users, p \in GovCooldownInputs :
          updateDefaultCooldown(c, p)
    \/ \E c \in Users : pause(c)
    \/ \E c \in Users : unpause(c)

SpecGov == Init /\ [][NextGov]_vars

\* SpecVouch: the owner funds the pool and doubles the trust increase,
\* "alice" and "bob" borrow and repay, everyone tries to vouch for everyone,
\* and the owner pauses and unpauses the contract.
NextVouch ==
    \/ updateTrustParameters(Owner, 100, 60)
    \/ depositToPool(Owner, 2 * MIN_LOAN_AMOUNT) /\ WithinTx(MaxTxVouch)
    \/ \E b \in {"alice", "bob"} :
          requestLoan(b, MIN_LOAN_AMOUNT, Day) /\ WithinTx(MaxTxVouch)
    \/ \E b \in {"alice", "bob"} : repayLoan(b) /\ WithinTx(MaxTxVouch)
    \/ \E c \in Users, v \in Users :
          vouchForUser(c, v) /\ WithinTx(MaxTxVouch)
    \/ pause(Owner)
    \/ unpause(Owner)

SpecVouch == Init /\ [][NextVouch]_vars

\* ================================================================ properties
Terminal(b) == activeLoans[b].status \in {"REPAID", "DEFAULTED"}

RECURSIVE SumDeposits(_)
SumDeposits(S) ==
    IF S = {} THEN 0
    ELSE LET u == CHOOSE x \in S : TRUE
         IN lenders[u].depositedAmount + SumDeposits(S \ {u})

\* C1 (conservation): in every reachable state the liquidity of the pool is
\* what the lenders deposited less what was lost to defaults:
\* totalPoolLiquidity = totalLenderDeposits - totalDefaultedAmount.
C1_Conservation ==
    /\ totalLenderDeposits >= totalDefaultedAmount
    /\ totalPoolLiquidity = totalLenderDeposits - totalDefaultedAmount

\* a default has been absorbed and a lender has withdrawn since depositing
C1_Witness ==
    /\ totalDefaultedAmount > 0
    /\ totalPoolLiquidity > 0
    /\ \E l \in Lenders : /\ lenders[l].depositTime > 0
                          /\ lenders[l].depositedAmount = 0

\* C2: in every reachable state totalPoolLiquidity >= totalActiveLoans, so
\* the subtraction totalPoolLiquidity - totalActiveLoans never underflows in
\* withdrawFromPool, requestLoan or markDefault (no call reverts with the
\* arithmetic panic), and getPoolStats reports exactly that difference.
C2_LiquidityCoversLoans ==
    /\ totalPoolLiquidity >= totalActiveLoans
    /\ getPoolStats.availableLiquidity = totalPoolLiquidity - totalActiveLoans
    /\ \A c \in Users :
          /\ \A a \in DepositAmounts :
                withdrawFromPoolError(c, a) # "Panic(0x11)"
          /\ \A a \in LoanAmounts, d \in Durations :
                requestLoanError(c, a, d) # "Panic(0x11)"
          /\ \A b \in Users : markDefaultError(c, b) # "Panic(0x11)"

\* a loan of the whole liquidity has defaulted: the loss was absorbed and
\* nothing is left to lend or withdraw
C2_Witness ==
    /\ totalDefaultedAmount = 2 * MIN_LOAN_AMOUNT
    /\ totalPoolLiquidity = totalActiveLoans
    /\ activeLoans["bob"].status = "DEFAULTED"

\* C3: in every reachable state totalLenderDeposits is the sum of all
\* lenders' depositedAmount, and no depositedAmount is negative.
C3_DepositsSum ==
    /\ totalLenderDeposits = SumDeposits(Users)
    /\ \A u \in Users : lenders[u].depositedAmount >= 0

\* one lender holds a deposit, another has deposited and withdrawn it
C3_Witness ==
    \E l1 \in Lenders, l2 \in Lenders :
        /\ l1 # l2
        /\ lenders[l1].depositedAmount > 0
        /\ lenders[l2].depositTime > 0
        /\ lenders[l2].depositedAmount = 0

\* C4 (score bounds): every user's trust score stays within
\* 0 .. MAX_TRUST_SCORE under repayments, defaults, vouches and updates of
\* the trust parameters.
C4_ScoreBounds ==
    \A u \in Users : /\ userProfiles[u].trustScore >= 0
                     /\ userProfiles[u].trustScore <= MAX_TRUST_SCORE

\* a borrower at the cap whose last increase was cut short by it
C4_Witness ==
    /\ userProfiles["bob"].trustScore = MAX_TRUST_SCORE
    /\ userProfiles["bob"].successfulRepayments >= 10

HasActiveLoan(b) ==
    userProfiles[b].hasActiveLoan /\ activeLoans[b].status = "ACTIVE"

\* C5 as stated: a request by a borrower with an active loan fails with
\* "Already has active loan", whatever else holds.
C5_AlwaysAlreadyActive ==
    \A b \in Users, a \in LoanAmounts, d \in Durations :
        userProfiles[b].hasActiveLoan
            => requestLoanError(b, a, d) = "Already has active loan"

\* C5 (single active loan), amended: requestLoan by a caller whose
\* hasActiveLoan is true always fails and leaves the stored loan unchanged;
\* the reason is "Already has active loan" unless the contract is paused,
\* when the pause guard answers first with EnforcedPause.  A loan slot is
\* overwritten with a new loan only when its borrower has no ACTIVE loan.
C5_SingleActiveLoan ==
    [][\A b \in Users :
          /\ userProfiles[b].hasActiveLoan
                => \A a \in LoanAmounts, d \in Durations :
                      /\ requestLoanError(b, a, d) =
                            IF paused THEN "EnforcedPause"
                                      ELSE "Already has active loan"
                      /\ requestLoan(b, a, d) => UNCHANGED vars
          /\ (/\ activeLoans'[b] # activeLoans[b]
              /\ activeLoans'[b].status = "ACTIVE")
                => /\ ~userProfiles[b].hasActiveLoan
                   /\ Terminal(b) \/ activeLoans[b] = EmptyLoan
                   /\ userProfiles'[b].hasActiveLoan]_vars

\* the contract is paused while a borrower holds an active loan, and a
\* borrower holds a second loan issued after the first was repaid
C5_Witness ==
    /\ paused
    /\ HasActiveLoan("bob")
    /\ userProfiles["bob"].totalLoansTaken = 2

\* C6: each issued loan leaves ACTIVE at most once.  An ACTIVE loan changes
\* only by becoming REPAID or DEFAULTED; once it is terminal every repayLoan
\* and every markDefault on its borrower fails and changes nothing, and the
\* slot changes only when the borrower is issued a new loan.
C6_LeavesActiveOnce ==
    [][\A b \in Users :
          /\ (HasActiveLoan(b) /\ activeLoans'[b] # activeLoans[b])
                => \E st \in {"REPAID", "DEFAULTED"} :
                      /\ activeLoans'[b] =
                            [activeLoans[b] EXCEPT !.status = st]
                      /\ ~userProfiles'[b].hasActiveLoan
          /\ Terminal(b)
                => /\ repayLoanError(b) \in
                         {"EnforcedPause", "No active loan", "Loan not active"}
                   /\ repayLoan(b) => UNCHANGED vars
                   /\ \A c \in Users :
                         /\ markDefaultError(c, b) \in
                               {"No active loan", "Loan not active"}
                         /\ markDefault(c, b) => UNCHANGED vars
                   /\ activeLoans'[b] # activeLoans[b]
                         => /\ activeLoans'[b].status = "ACTIVE"
                            /\ activeLoans'[b].startTime = now
                            /\ userProfiles'[b].totalLoansTaken =
                                  userProfiles[b].totalLoansTaken + 1]_vars

\* a borrower's second loan, issued after the first was repaid, has become
\* overdue and been marked as defaulted
C6_Witness ==
    /\ activeLoans["bob"].status = "DEFAULTED"
    /\ now > activeLoans["bob"].dueDate
    /\ userProfiles["bob"].totalLoansTaken = 2
    /\ userProfiles["bob"].successfulRepayments = 1

C8_DefaultIffOverdue ==
    /\ [](\A c \in Users, b \in Users :
            /\ markDefaultError(c, b) = "ok"
                  <=> (HasActiveLoan(b) /\ now > activeLoans[b].dueDate)
            /\ (HasActiveLoan(b) /\ now <= activeLoans[b].dueDate)
                  => markDefaultError(c, b) = "Not overdue yet")
    /\ [][\A c \in Users, b \in Users :
            (markDefaultError(c, b) # "ok" /\ markDefault(c, b))
                => UNCHANGED vars]_vars

\* while the contract is paused a loan is overdue, and a caller who is
\* neither the owner nor the borrower can mark it
C8_Witness ==
    /\ paused
    /\ HasActiveLoan("bob")
    /\ now > activeLoans["bob"].dueDate
    /\ markDefaultError("alice", "bob") = "ok"

\* C9: a successful markDefault on a loan with principal p sets the loan's
\* status to DEFAULTED and hasActiveLoan to false, adds 1 to the borrower's
\* defaults, sets lastDefaultTime to now, takes p off totalActiveLoans and
\* off totalPoolLiquidity, adds p to totalDefaultedAmount, and leaves
\* totalLenderDeposits, every lender's record and totalInterestPool as they
\* were.
C9_DefaultEffects ==
    [][\A c \in Users, b \in Users :
          (markDefaultError(c, b) = "ok" /\ markDefault(c, b))
              => LET p == activeLoans[b].principal
                 IN /\ activeLoans'[b] =
                          [activeLoans[b] EXCEPT !.status = "DEFAULTED"]
                    /\ userProfiles'[b].hasActiveLoan = FALSE
                    /\ userProfiles'[b].defaults = userProfiles[b].defaults + 1
                    /\ userProfiles'[b].lastDefaultTime = now
                    /\ totalActiveLoans' = totalActiveLoans - p
                    /\ totalPoolLiquidity' = totalPoolLiquidity - p
                    /\ totalDefaultedAmount' = totalDefaultedAmount + p
                    /\ totalLenderDeposits' = totalLenderDeposits
                    /\ lenders' = lenders
                    /\ totalInterestPool' = totalInterestPool
                    /\ balanceOf' = balanceOf]_vars

\* a loan has just been marked as defaulted: its principal is the pool's
\* whole loss, and the lenders' deposits now exceed the liquidity by it
C9_Witness ==
    /\ activeLoans["bob"].status = "DEFAULTED"
    /\ userProfiles["bob"].defaults = 1
    /\ userProfiles["bob"].lastDefaultTime = now
    /\ totalDefaultedAmount = activeLoans["bob"].principal
    /\ totalLenderDeposits = 4 * MIN_LOAN_AMOUNT
    /\ totalPoolLiquidity < totalLenderDeposits

\* C10: every successful markDefault leaves the borrower's trust score
\* strictly lower than it was before the call.
C10_DefaultLowersTrust ==
    [][\A c \in Users, b \in Users :
          (markDefaultError(c, b) = "ok" /\ markDefault(c, b))
              => userProfiles'[b].trustScore < userProfiles[b].trustScore]_vars

\* C11: on a successful markDefault, with d = TRUST_DECREASE_ON_DEFAULT, plus
\* 100 when the borrower's defaults after this one number more than 1, the
\* new trust score is score - d if score > d and otherwise
\* INITIAL_TRUST_SCORE / 2 = 50.
C11_DefaultDecrease ==
    [][\A c \in Users, b \in Users :
          (markDefaultError(c, b) = "ok" /\ markDefault(c, b))
              => LET score == userProfiles[b].trustScore
                     d == IF userProfiles[b].defaults + 1 > 1
                          THEN TRUST_DECREASE_ON_DEFAULT + 100
                          ELSE TRUST_DECREASE_ON_DEFAULT
                 IN /\ INITIAL_TRUST_SCORE \div 2 = 50
                    /\ userProfiles'[b].trustScore =
                          IF score > d THEN score - d ELSE 50]_vars

\* a borrower who repaid once at an increase of 100 and then defaulted twice
\* at a decrease of 60: 200, 140, and then 50 because 140 <= 160
C11_Witness ==
    /\ userProfiles["bob"].defaults = 2
    /\ userProfiles["bob"].successfulRepayments = 1
    /\ TRUST_DECREASE_ON_DEFAULT = 60
    /\ userProfiles["bob"].trustScore = 50

\* C12: on a successful repayLoan the borrower's trust score becomes
\* min(score + inc, MAX_TRUST_SCORE), where inc is
\* TRUST_INCREASE_PER_REPAYMENT, plus 20 from the fifth repayment on, plus a
\* further 10 from the tenth on, the repayment just made being counted; the
\* first repayment of a fresh borrower adds exactly the configured increment.
C12_RepaymentIncrease ==
    [][\A b \in Users :
          (repayLoanError(b) = "ok" /\ repayLoan(b))
              => LET score == userProfiles[b].trustScore
                     n == userProfiles[b].successfulRepayments + 1
                     inc == TRUST_INCREASE_PER_REPAYMENT
                               + (IF n >= 5 THEN 20 ELSE 0)
                               + (IF n >= 10 THEN 10 ELSE 0)
                 IN /\ userProfiles'[b].trustScore =
                          IF score + inc < MAX_TRUST_SCORE
                          THEN score + inc ELSE MAX_TRUST_SCORE
                    /\ (n = 1 /\ userProfiles[b].defaults = 0)
                          => userProfiles'[b].trustScore =
                                INITIAL_TRUST_SCORE
                                   + TRUST_INCREASE_PER_REPAYMENT]_vars

\* five repayments at the initial increase of 50: 150, 200, 250, 300 and
\* then 370 with the bonus of 20
C12_Witness ==
    /\ userProfiles["bob"].successfulRepayments = 5
    /\ userProfiles["bob"].defaults = 0
    /\ userProfiles["bob"].trustScore = 370

\* the caller can hand over the whole repayment of the loan in its slot
SuppliesRepayment(b) == balanceOf[b] >= activeLoans[b].totalRepayment

\* C13 as stated: repayLoan succeeds whenever the caller has an ACTIVE loan
\* and supplies totalRepayment in full.
C13_RepaySucceedsWhenever ==
    \A b \in Users :
        (HasActiveLoan(b) /\ SuppliesRepayment(b)) => repayLoanError(b) = "ok"

\* C13, amended: while the contract is not paused, repayLoan succeeds
\* whenever the caller has an ACTIVE loan and supplies totalRepayment in
\* full, before and after the due date; while it is paused the same call
\* fails with EnforcedPause.  On success the status becomes REPAID and
\* hasActiveLoan false, successfulRepayments grows by 1, totalActiveLoans
\* falls by the principal, totalInterestPool grows by the loan's
\* interestAmount, the borrower pays totalRepayment to the contract, and
\* totalPoolLiquidity, totalLenderDeposits and totalDefaultedAmount stay.
C13_RepayUnlessPaused ==
    /\ [](\A b \in Users :
            (HasActiveLoan(b) /\ SuppliesRepayment(b))
                => repayLoanError(b) =
                      IF paused THEN "EnforcedPause" ELSE "ok")
    /\ [][\A b \in Users :
            (repayLoanError(b) = "ok" /\ repayLoan(b))
                => LET loan == activeLoans[b]
                   IN /\ activeLoans'[b] = [loan EXCEPT !.status = "REPAID"]
                      /\ userProfiles'[b].hasActiveLoan = FALSE
                      /\ userProfiles'[b].successfulRepayments =
                            userProfiles[b].successfulRepayments + 1
                      /\ totalActiveLoans' = totalActiveLoans - loan.principal
                      /\ totalInterestPool' =
                            totalInterestPool + loan.interestAmount
                      /\ balanceOf'[b] = balanceOf[b] - loan.totalRepayment
                      /\ balanceOf'[Contract] =
                            balanceOf[Contract] + loan.totalRepayment
                      /\ totalPoolLiquidity' = totalPoolLiquidity
                      /\ totalLenderDeposits' = totalLenderDeposits
                      /\ totalDefaultedAmount' = totalDefaultedAmount]_vars

\* a loan has been repaid with interest, and its borrower holds a second,
\* overdue loan that can still be repaid
C13_Witness ==
    /\ userProfiles["bob"].successfulRepayments = 1
    /\ totalInterestPool > 0
    /\ HasActiveLoan("bob")
    /\ now > activeLoans["bob"].dueDate
    /\ repayLoanError("bob") = "ok"

\* a request that got past the pause guard and the active-loan, minimum
\* amount and duration checks of requestLoan
PassesEarlyChecks(b, a, d) ==
    requestLoanError(b, a, d) \notin
        {"EnforcedPause", "Already has active loan", "Amount below minimum",
         "Duration too short", "Duration too long"}

\* C14: after a borrower's loan was marked as defaulted at time t
\* (lastDefaultTime), every requestLoan of that borrower that passes the
\* active-loan, minimum-amount and duration checks is rejected with
\* "Blocked due to recent default" while now <= t + DEFAULT_COOLDOWN_PERIOD
\* and is not rejected for that reason once now > t +
\* DEFAULT_COOLDOWN_PERIOD; a borrower without defaults is never rejected
\* for it.
C14_Cooldown ==
    \A b \in Users, a \in LoanAmounts, d \in Durations :
        LET user == userProfiles[b]
            blocked == requestLoanError(b, a, d) =
                           "Blocked due to recent default"
        IN /\ user.defaults = 0 => ~blocked
           /\ (user.defaults > 0 /\ PassesEarlyChecks(b, a, d))
                 => (blocked <=>
                        now <= user.lastDefaultTime + DEFAULT_COOLDOWN_PERIOD)
           /\ blocked => user.defaults > 0 /\ user.lastDefaultTime > 0

\* the last day of a cooldown of 7 days, on which a request is still blocked
C14_Witness ==
    /\ userProfiles["bob"].defaults = 1
    /\ DEFAULT_COOLDOWN_PERIOD = 7 * Day
    /\ now = userProfiles["bob"].lastDefaultTime + DEFAULT_COOLDOWN_PERIOD
    /\ requestLoanError("bob", MIN_LOAN_AMOUNT, Day) =
          "Blocked due to recent default"

\* C15: a successful requestLoan(amount, duration) sets a trust score that
\* was never initialised to INITIAL_TRUST_SCORE (100) and leaves any other
\* as it is; stores a loan with principal = amount, totalRepayment =
\* principal + interestAmount, dueDate = now + duration and status ACTIVE;
\* sets hasActiveLoan, adds 1 to totalLoansTaken and amount to
\* totalActiveLoans; moves exactly amount from the contract to the borrower;
\* and leaves totalPoolLiquidity and totalLenderDeposits unchanged.
C15_IssueEffects ==
    [][\A b \in Users, a \in LoanAmounts, d \in Durations :
          (requestLoanError(b, a, d) = "ok" /\ requestLoan(b, a, d))
              => LET loan == activeLoans'[b]
                 IN /\ INITIAL_TRUST_SCORE = 100
                    /\ userProfiles'[b].trustScore =
                          IF userProfiles[b].trustScore = 0
                          THEN 100 ELSE userProfiles[b].trustScore
                    /\ loan.borrower = b
                    /\ loan.principal = a
                    /\ loan.interestAmount >= 0
                    /\ loan.totalRepayment = a + loan.interestAmount
                    /\ loan.startTime = now
                    /\ loan.dueDate = now + d
                    /\ loan.duration = d
                    /\ loan.status = "ACTIVE"
                    /\ userProfiles'[b].hasActiveLoan = TRUE
                    /\ userProfiles'[b].totalLoansTaken =
                          userProfiles[b].totalLoansTaken + 1
                    /\ totalActiveLoans' = totalActiveLoans + a
                    /\ balanceOf'[b] = balanceOf[b] + a
                    /\ balanceOf'[Contract] = balanceOf[Contract] - a
                    /\ totalPoolLiquidity' = totalPoolLiquidity
                    /\ totalLenderDeposits' = totalLenderDeposits]_vars

\* a wallet's first loan, of everything the pool holds: the score was
\* initialised and the tokens have reached the borrower
C15_Witness ==
    /\ HasActiveLoan("bob")
    /\ userProfiles["bob"].totalLoansTaken = 1
    /\ userProfiles["bob"].trustScore = INITIAL_TRUST_SCORE
    /\ activeLoans["bob"].principal = 2 * MIN_LOAN_AMOUNT
    /\ activeLoans["bob"].dueDate = activeLoans["bob"].startTime + Day
    /\ balanceOf["bob"] = InitialBalance + 2 * MIN_LOAN_AMOUNT
    /\ balanceOf[Contract] = 0

\* C16: for every issued loan, interestAmount = floor(amount * rate *
\* duration / (10000 * 365 days)), where rate = min(BASE_INTEREST_RATE +
\* trustPenalty + maturityPenalty + 2 * floor(100 * totalActiveLoans /
\* totalPoolLiquidity), MAX_INTEREST_RATE), trustPenalty is 700 below a
\* trust of 300, 300 below 600 and 0 from there, maturityPenalty is 500 for
\* tier 0, 200 for tier 1 and 0 above, and the utilization is that of the
\* pool before this loan is added; so BASE_INTEREST_RATE <= rate <=
\* MAX_INTEREST_RATE.
C16_InterestFormula ==
    [][\A b \in {"alice", "bob"}, a \in {MIN_LOAN_AMOUNT},
          d \in {Day, 7 * Day} :
          (requestLoanError(b, a, d) = "ok" /\ requestLoan(b, a, d))
              => LET user == userProfiles[b]
                     trust == IF user.trustScore = 0 THEN 100
                              ELSE user.trustScore
                     age == IF user.walletFirstSeen = 0 THEN 0
                            ELSE now - user.walletFirstSeen
                     tier == IF age >= 90 * Day THEN 3
                             ELSE IF age >= 30 * Day THEN 2
                             ELSE IF age >= 7 * Day THEN 1 ELSE 0
                     trustPenalty == IF trust < 300 THEN 700
                                     ELSE IF trust < 600 THEN 300 ELSE 0
                     maturityPenalty == IF tier = 0 THEN 500
                                        ELSE IF tier = 1 THEN 200 ELSE 0
                     utilization == IF totalPoolLiquidity = 0 THEN 0
                                    ELSE (100 * totalActiveLoans)
                                            \div totalPoolLiquidity
                     raw == BASE_INTEREST_RATE + trustPenalty
                               + maturityPenalty + 2 * utilization
                     rate == IF raw < MAX_INTEREST_RATE THEN raw
                             ELSE MAX_INTEREST_RATE
                 IN /\ activeLoans'[b].interestAmount =
                          (a * rate * d) \div (10000 * 365 * Day)
                    /\ activeLoans'[b].totalRepayment =
                          a + activeLoans'[b].interestAmount
                    /\ BASE_INTEREST_RATE <= rate
                    /\ rate <= MAX_INTEREST_RATE]_vars

\* a borrower of the highest trust tier and a wallet a week old holds a loan
\* issued while half of the pool was lent to somebody else
C16_Witness ==
    /\ HasActiveLoan("bob")
    /\ userProfiles["bob"].trustScore >= 600
    /\ activeLoans["bob"].startTime >= userProfiles["bob"].walletFirstSeen
                                          + 7 * Day
    /\ HasActiveLoan("alice")
    /\ activeLoans["alice"].startTime < activeLoans["bob"].startTime
    /\ activeLoans["bob"].interestAmount > 0

\* C17: getWalletMaturity returns age 0, tier 0 and multiplier 20 while
\* walletFirstSeen is unset; otherwise age = now - walletFirstSeen with tier
\* and multiplier 3 and 150 from 90 days, 2 and 100 from 30 days, 1 and 50
\* from 7 days, else 0 and 20, each threshold included; so a wallet's tier
\* never decreases as time advances.
C17_WalletMaturity ==
    /\ [](\A w \in Users :
            LET firstSeen == userProfiles[w].walletFirstSeen
                m == getWalletMaturity(w)
            IN IF firstSeen = 0
               THEN m = [age |-> 0, maturityLevel |-> 0,
                         maturityMultiplier |-> 20]
               ELSE /\ m.age = now - firstSeen
                    /\ m.age >= 0
                    /\ <<m.maturityLevel, m.maturityMultiplier>> =
                          IF m.age >= 90 * Day THEN <<3, 150>>
                          ELSE IF m.age >= 30 * Day THEN <<2, 100>>
                          ELSE IF m.age >= 7 * Day THEN <<1, 50>>
                          ELSE <<0, 20>>)
    /\ [][\A w \in Users :
            getWalletMaturity(w)'.maturityLevel
                >= getWalletMaturity(w).maturityLevel]_vars

\* a wallet on the very day it turns 90 days old
C17_Witness ==
    getWalletMaturity("alice") =
        [age |-> 90 * Day, maturityLevel |-> 3, maturityMultiplier |-> 150]

\* trust scores on both sides of every tier boundary, and the multipliers
TrustSamples == {1, 50, 100, 299, 300, 599, 600, 1000}
Multipliers == {20, 50, 100, 150}

\* C18 as stated: requestLoan rejects with "Amount exceeds trust/maturity
\* limit" exactly when the amount exceeds the limit that getUserProfile
\* reports.
C18_ExceedsLimitExactly ==
    \A b \in Users, a \in LoanAmounts, d \in Durations :
        requestLoanError(b, a, d) = "Amount exceeds trust/maturity limit"
            <=> a > getUserProfile(b).maxBorrowingLimit

\* C18, amended: the borrowing limit is floor(base * multiplier / 100) with
\* base = LOW_TRUST_LIMIT below a trust of 300, MED_TRUST_LIMIT below 600,
\* else HIGH_TRUST_LIMIT; in every reachable parameter state, for a fixed
\* multiplier, a higher trust tier never has a lower limit; it is the value
\* getUserProfile reports as maxBorrowingLimit.  requestLoan rejects with
\* "Amount exceeds trust/maturity limit" only when the amount exceeds this
\* limit, and it does so for every such request that has passed the pause
\* guard and the active-loan, minimum-amount, duration and cooldown checks,
\* which come first and answer with their own reasons.
C18_BorrowingLimit ==
    /\ LOW_TRUST_LIMIT < MED_TRUST_LIMIT
    /\ MED_TRUST_LIMIT < HIGH_TRUST_LIMIT
    /\ \A m \in Multipliers, t \in TrustSamples :
          /\ _calculateBorrowingLimit(t, m) =
                ((IF t < 300 THEN LOW_TRUST_LIMIT
                  ELSE IF t < 600 THEN MED_TRUST_LIMIT
                  ELSE HIGH_TRUST_LIMIT) * m) \div 100
          /\ \A t2 \in TrustSamples :
                t <= t2 => _calculateBorrowingLimit(t, m)
                              <= _calculateBorrowingLimit(t2, m)
    /\ \A b \in Users :
          LET profile == userProfiles[b]
              trust == IF profile.trustScore = 0 THEN 100
                       ELSE profile.trustScore
              age == IF profile.walletFirstSeen = 0 THEN 0
                     ELSE now - profile.walletFirstSeen
              m == IF age >= 90 * Day THEN 150
                   ELSE IF age >= 30 * Day THEN 100
                   ELSE IF age >= 7 * Day THEN 50 ELSE 20
              base == IF trust < 300 THEN LOW_TRUST_LIMIT
                      ELSE IF trust < 600 THEN MED_TRUST_LIMIT
                      ELSE HIGH_TRUST_LIMIT
              limit == (base * m) \div 100
          IN /\ getUserProfile(b).maxBorrowingLimit = limit
             /\ \A a \in LoanAmounts, d \in Durations :
                   LET e == requestLoanError(b, a, d)
                   IN /\ e = "Amount exceeds trust/maturity limit"
                            => a > limit
                      /\ (/\ PassesEarlyChecks(b, a, d)
                          /\ e # "Blocked due to recent default"
                          /\ a > limit)
                            => e = "Amount exceeds trust/maturity limit"

\* with the low limit halved a new wallet may borrow 0.01 ether: a request
\* for twice as much is turned away although the pool could lend it, and
\* the same request with a duration of 0 is turned away for its duration
C18_Witness ==
    /\ LOW_TRUST_LIMIT = Ether \div 20
    /\ getUserProfile("bob").maxBorrowingLimit = MIN_LOAN_AMOUNT
    /\ totalPoolLiquidity - totalActiveLoans >= 2 * MIN_LOAN_AMOUNT
    /\ requestLoanError("bob", 2 * MIN_LOAN_AMOUNT, Day) =
          "Amount exceeds trust/maturity limit"
    /\ requestLoanError("bob", 2 * MIN_LOAN_AMOUNT, 0) = "Duration too short"

\* C19 as stated: depositToPool fails with "Amount must be > 0" when the
\* amount is 0.
C19_ZeroIsInvalidAmount ==
    \A c \in Users : depositToPoolError(c, 0) = "Amount must be > 0"

\* C19, amended: depositToPool(0) always fails, with "Amount must be > 0"
\* while the contract is not paused and with EnforcedPause while it is; a
\* failing deposit changes nothing.  A successful deposit has amount > 0,
\* adds exactly amount to the caller's depositedAmount, to
\* totalPoolLiquidity and to totalLenderDeposits, sets depositTime and
\* lastClaimTime to now, moves amount from the caller to the contract, and
\* leaves totalActiveLoans, totalInterestPool, totalDefaultedAmount and
\* every other lender's record unchanged.
C19_DepositEffects ==
    /\ [](\A c \in Users :
            depositToPoolError(c, 0) =
                IF paused THEN "EnforcedPause" ELSE "Amount must be > 0")
    /\ [][\A c \in Users, a \in DepositAmounts :
            /\ (depositToPoolError(c, a) # "ok" /\ depositToPool(c, a))
                  => UNCHANGED vars
            /\ (depositToPoolError(c, a) = "ok" /\ depositToPool(c, a))
                  => /\ a > 0
                     /\ lenders'[c] =
                           [depositedAmount |->
                               lenders[c].depositedAmount + a,
                            depositTime |-> now,
                            totalInterestEarned |->
                               lenders[c].totalInterestEarned,
                            lastClaimTime |-> now]
                     /\ totalPoolLiquidity' = totalPoolLiquidity + a
                     /\ totalLenderDeposits' = totalLenderDeposits + a
                     /\ balanceOf'[c] = balanceOf[c] - a
                     /\ balanceOf'[Contract] = balanceOf[Contract] + a
                     /\ totalActiveLoans' = totalActiveLoans
                     /\ totalInterestPool' = totalInterestPool
                     /\ totalDefaultedAmount' = totalDefaultedAmount
                     /\ \A l \in Users \ {c} : lenders'[l] = lenders[l]]_vars

\* a second lender has deposited, on a later day than the first and while
\* part of the pool was lent out
C19_Witness ==
    /\ lenders["owner"].depositedAmount = 2 * MIN_LOAN_AMOUNT
    /\ lenders["alice"].depositedAmount = 2 * MIN_LOAN_AMOUNT
    /\ lenders["alice"].depositTime > lenders["owner"].depositTime
    /\ lenders["alice"].lastClaimTime = lenders["alice"].depositTime
    /\ totalActiveLoans > 0
    /\ activeLoans["bob"].startTime < lenders["alice"].depositTime

\* C20 as stated: withdrawFromPool fails with "Insufficient balance" when
\* the amount exceeds the caller's deposit.
C20_ExceedingDepositIsInsufficientBalance ==
    \A c \in Users, a \in DepositAmounts :
        a > lenders[c].depositedAmount
            => withdrawFromPoolError(c, a) = "Insufficient balance"

\* C20, amended: withdrawFromPool(amount) succeeds only if the contract is
\* not paused, amount > 0, amount <= the caller's depositedAmount and
\* amount <= totalPoolLiquidity - totalActiveLoans, and then it does.  While
\* the contract is paused it fails with EnforcedPause; otherwise it fails
\* with "Insufficient balance" when the amount exceeds the caller's deposit,
\* whatever the liquidity, and with "Insufficient pool liquidity" when the
\* deposit covers a positive amount and the liquidity not lent out does
\* not.  On success the caller's depositedAmount, totalPoolLiquidity and
\* totalLenderDeposits each fall by exactly amount, which is paid out.
C20_Withdraw ==
    /\ [](\A c \in Users, a \in DepositAmounts :
            LET e == withdrawFromPoolError(c, a)
                deposit == lenders[c].depositedAmount
                available == totalPoolLiquidity - totalActiveLoans
            IN /\ e = "ok" <=> /\ ~paused
                               /\ a > 0
                               /\ a <= deposit
                               /\ a <= available
               /\ paused => e = "EnforcedPause"
               /\ (~paused /\ a > deposit) => e = "Insufficient balance"
               /\ (~paused /\ a > 0 /\ a <= deposit /\ a > available)
                     => e = "Insufficient pool liquidity")
    /\ [][\A c \in Users, a \in DepositAmounts :
            /\ (withdrawFromPoolError(c, a) # "ok" /\ withdrawFromPool(c, a))
                  => UNCHANGED vars
            /\ (withdrawFromPoolError(c, a) = "ok" /\ withdrawFromPool(c, a))
                  => /\ lenders'[c] =
                           [lenders[c] EXCEPT !.depositedAmount = @ - a]
                     /\ totalPoolLiquidity' = totalPoolLiquidity - a
                     /\ totalLenderDeposits' = totalLenderDeposits - a
                     /\ balanceOf'[c] = balanceOf[c] + a
                     /\ balanceOf'[Contract] = balanceOf[Contract] - a
                     /\ totalActiveLoans' = totalActiveLoans]_vars

\* a lender's deposit covers the withdrawal but the pool has lent it out,
\* while another caller, without a deposit, asks for the same amount
C20_Witness ==
    /\ ~paused
    /\ lenders["alice"].depositedAmount = 2 * MIN_LOAN_AMOUNT
    /\ totalActiveLoans > 0
    /\ withdrawFromPoolError("alice", 2 * MIN_LOAN_AMOUNT) =
          "Insufficient pool liquidity"
    /\ withdrawFromPoolError("bob", 2 * MIN_LOAN_AMOUNT) =
          "Insufficient balance"

\* the share of the interest pool the claim speaks of, for lender c
ShareOf(c) ==
    IF totalLenderDeposits = 0 THEN 0
    ELSE (lenders[c].depositedAmount * totalInterestPool)
            \div totalLenderDeposits

\* C21 as stated: claimInterest fails when the caller has no deposit or
\* when the share is 0, and otherwise it pays the share out.
C21_ClaimsWheneverShare ==
    \A c \in Users :
        claimInterestError(c) # "ok"
            <=> (lenders[c].depositedAmount = 0 \/ ShareOf(c) = 0)

\* C21, amended: claimInterest fails while the contract is paused, when the
\* caller has no deposit, or when share = floor(depositedAmount *
\* totalInterestPool / totalLenderDeposits) is 0, and a failing call changes
\* nothing; otherwise it decreases totalInterestPool by exactly share,
\* increases the caller's totalInterestEarned by share, sets lastClaimTime
\* to now, pays share to the caller, and leaves depositedAmount,
\* totalPoolLiquidity, totalLenderDeposits and totalActiveLoans unchanged;
\* share never exceeds totalInterestPool.
C21_ClaimInterest ==
    /\ [](\A c \in Users :
            /\ claimInterestError(c) # "ok"
                  <=> \/ paused
                      \/ lenders[c].depositedAmount = 0
                      \/ ShareOf(c) = 0
            /\ ShareOf(c) <= totalInterestPool)
    /\ [][\A c \in Users :
            /\ (claimInterestError(c) # "ok" /\ claimInterest(c))
                  => UNCHANGED vars
            /\ (claimInterestError(c) = "ok" /\ claimInterest(c))
                  => /\ totalInterestPool' = totalInterestPool - ShareOf(c)
                     /\ lenders'[c] =
                           [depositedAmount |-> lenders[c].depositedAmount,
                            depositTime |-> lenders[c].depositTime,
                            totalInterestEarned |->
                               lenders[c].totalInterestEarned + ShareOf(c),
                            lastClaimTime |-> now]
                     /\ balanceOf'[c] = balanceOf[c] + ShareOf(c)
                     /\ balanceOf'[Contract] = balanceOf[Contract] - ShareOf(c)
                     /\ totalPoolLiquidity' = totalPoolLiquidity
                     /\ totalLenderDeposits' = totalLenderDeposits
                     /\ totalActiveLoans' = totalActiveLoans
                     /\ \A l \in Users \ {c} : lenders'[l] = lenders[l]]_vars

\* "alice" has claimed her share on a day after her deposit, interest is
\* left in the pool, and the owner's share of what is left truncates to 0
C21_Witness ==
    /\ ~paused
    /\ lenders["alice"].totalInterestEarned > 0
    /\ lenders["alice"].lastClaimTime > lenders["alice"].depositTime
    /\ totalInterestPool > 0
    /\ lenders[Owner].depositedAmount > 0
    /\ claimInterestError(Owner) = "No interest to claim"
    /\ claimInterestError("bob") = "No deposits"

\* C22 (interest proportionality): whenever one lender's deposit is twice
\* another's, the shares the two would be paid from the interest pool as
\* it stands satisfy share1 = 2 * share2 up to the truncation of the two
\* divisions (2 * share2 <= share1 <= 2 * share2 + 1), and a successful
\* claimInterest pays its caller exactly that share.
C22_Proportional ==
    /\ [](\A l1 \in Users, l2 \in Users :
            (/\ lenders[l2].depositedAmount > 0
             /\ lenders[l1].depositedAmount =
                   2 * lenders[l2].depositedAmount)
               => LET share1 == _calculateInterestShare(l1)
                      share2 == _calculateInterestShare(l2)
                  IN /\ 2 * share2 <= share1
                     /\ share1 <= 2 * share2 + 1)
    /\ [][\A l \in Users :
            (claimInterestError(l) = "ok" /\ claimInterest(l))
               => /\ balanceOf'[l] - balanceOf[l] = _calculateInterestShare(l)
                  /\ lenders'[l].totalInterestEarned
                        - lenders[l].totalInterestEarned
                        = _calculateInterestShare(l)]_vars

\* "alice" holds twice the owner's deposit, both have been paid interest,
\* and of what is left her share is 1 and the owner's truncates to 0
C22_Witness ==
    /\ lenders[Owner].depositedAmount = MIN_LOAN_AMOUNT
    /\ lenders["alice"].depositedAmount = 2 * MIN_LOAN_AMOUNT
    /\ lenders[Owner].totalInterestEarned > 0
    /\ lenders["alice"].totalInterestEarned > lenders[Owner].totalInterestEarned
    /\ _calculateInterestShare("alice") = 1
    /\ _calculateInterestShare(Owner) = 0

RECURSIVE SumInterestEarned(_)
SumInterestEarned(S) ==
    IF S = {} THEN 0
    ELSE LET u == CHOOSE x \in S : TRUE
         IN lenders[u].totalInterestEarned + SumInterestEarned(S \ {u})

\* borrower b's loan is repaid in this step
RepaidInStep(b) ==
    userProfiles'[b].successfulRepayments =
        userProfiles[b].successfulRepayments + 1

\* the interestAmount of the loans repaid in this step
RECURSIVE InterestRepaidInStep(_)
InterestRepaidInStep(S) ==
    IF S = {} THEN 0
    ELSE LET b == CHOOSE x \in S : TRUE
         IN (IF RepaidInStep(b) THEN activeLoans[b].interestAmount ELSE 0)
               + InterestRepaidInStep(S \ {b})

\* C23 (interest pool): totalInterestPool and every totalInterestEarned
\* start at 0, and every step keeps
\*   totalInterestPool + sum of totalInterestEarned
\*      = sum of interestAmount over the loans repaid so far:
\* the left side grows by the interestAmount of the loan the step repays and
\* by nothing else.  totalInterestPool rises only in a successful repayLoan,
\* by the loan's interestAmount, and falls only in a successful
\* claimInterest, by the share that the claimant's totalInterestEarned
\* gains; deposits, withdrawals, loan requests, defaults, vouches and
\* parameter updates leave it unchanged.
C23_InterestPool ==
    /\ totalInterestPool = 0
    /\ SumInterestEarned(Users) = 0
    /\ [][/\ totalInterestPool' + SumInterestEarned(Users)'
               = totalInterestPool + SumInterestEarned(Users)
                    + InterestRepaidInStep(Users)
          /\ totalInterestPool' > totalInterestPool
                => \E b \in Users :
                      /\ repayLoanError(b) = "ok"
                      /\ repayLoan(b)
                      /\ totalInterestPool' =
                            totalInterestPool + activeLoans[b].interestAmount
          /\ totalInterestPool' < totalInterestPool
                => \E c \in Users :
                      /\ claimInterestError(c) = "ok"
                      /\ claimInterest(c)
                      /\ totalInterestPool' =
                            totalInterestPool - _calculateInterestShare(c)
                      /\ lenders'[c].totalInterestEarned =
                            lenders[c].totalInterestEarned
                               + _calculateInterestShare(c)
          /\ (\/ depositToPool("alice", 2 * MIN_LOAN_AMOUNT)
              \/ withdrawFromPool("alice", 2 * MIN_LOAN_AMOUNT)
              \/ requestLoan("bob", MIN_LOAN_AMOUNT, Day)
              \/ markDefault("alice", "bob")
              \/ vouchForUser("bob", "alice")
              \/ updateTrustParameters(Owner, 100, 60)
              \/ updateInterestRates(Owner, 1000, 5000)
              \/ updateBorrowingLimits(Owner, Ether \div 20, Ether \div 2,
                                       Ether)
              \/ updateLoanDurationLimits(Owner, Day, 365 * Day)
              \/ updateDefaultCooldown(Owner, 7 * Day))
                => totalInterestPool' = totalInterestPool]_vars

\* interest has been paid in by four repayments and in part claimed, and
\* the borrower has vouched, under changed parameters
C23_Witness ==
    /\ totalInterestPool > 0
    /\ lenders["alice"].totalInterestEarned > 0
    /\ userProfiles["bob"].successfulRepayments >= 4
    /\ vouches["bob"]["alice"]
    /\ BASE_INTEREST_RATE = 1000

\* the preconditions of the five pool operations, the pause flag aside
DepositAccepted(c, a) == a > 0 /\ balanceOf[c] >= a

WithdrawAccepted(c, a) ==
    /\ a > 0
    /\ a <= lenders[c].depositedAmount
    /\ a <= totalPoolLiquidity - totalActiveLoans

ClaimAccepted(c) == lenders[c].depositedAmount > 0 /\ ShareOf(c) > 0

RequestAccepted(b, a, d) ==
    /\ ~userProfiles[b].hasActiveLoan
    /\ a >= MIN_LOAN_AMOUNT
    /\ d >= MIN_LOAN_DURATION
    /\ d <= MAX_LOAN_DURATION
    /\ userProfiles[b].defaults > 0
          => now > userProfiles[b].lastDefaultTime + DEFAULT_COOLDOWN_PERIOD
    /\ a <= getUserProfile(b).maxBorrowingLimit
    /\ a <= totalPoolLiquidity - totalActiveLoans

RepayAccepted(b) == HasActiveLoan(b) /\ SuppliesRepayment(b)

\* C24 (pause): while the pause flag is set, depositToPool, withdrawFromPool,
\* claimInterest, requestLoan and repayLoan are each rejected, with
\* EnforcedPause, and change nothing; while it is not set, each succeeds
\* exactly under its own preconditions; and a successful unpause (like a
\* successful pause) changes the flag and nothing else, so an operation that
\* the pause alone rejected is accepted after it.
C24_Pause ==
    /\ [](/\ \A c \in Users, a \in DepositAmounts :
              /\ depositToPoolError(c, a) = "ok"
                    <=> (~paused /\ DepositAccepted(c, a))
              /\ withdrawFromPoolError(c, a) = "ok"
                    <=> (~paused /\ WithdrawAccepted(c, a))
              /\ paused => /\ depositToPoolError(c, a) = "EnforcedPause"
                           /\ withdrawFromPoolError(c, a) = "EnforcedPause"
          /\ \A c \in Users :
              /\ claimInterestError(c) = "ok"
                    <=> (~paused /\ ClaimAccepted(c))
              /\ repayLoanError(c) = "ok"
                    <=> (~paused /\ RepayAccepted(c))
              /\ paused => /\ claimInterestError(c) = "EnforcedPause"
                           /\ repayLoanError(c) = "EnforcedPause"
          /\ \A b \in Users, a \in LoanAmounts, d \in Durations :
              /\ requestLoanError(b, a, d) = "ok"
                    <=> (~paused /\ RequestAccepted(b, a, d))
              /\ paused => requestLoanError(b, a, d) = "EnforcedPause")
    /\ [][/\ (unpauseError(Owner) = "ok" /\ unpause(Owner))
                => /\ paused /\ ~paused'
                   /\ UNCHANGED <<params, pool, maps, balanceOf, now,
                                  daoAddress, daoEnabled>>
          /\ (pauseError(Owner) = "ok" /\ pause(Owner))
                => /\ ~paused /\ paused'
                   /\ UNCHANGED <<params, pool, maps, balanceOf, now,
                                  daoAddress, daoEnabled>>
          /\ \A c \in Users :
                paused => /\ \A a \in DepositAmounts :
                                /\ depositToPool(c, a) => UNCHANGED vars
                                /\ withdrawFromPool(c, a) => UNCHANGED vars
                          /\ claimInterest(c) => UNCHANGED vars
                          /\ repayLoan(c) => UNCHANGED vars
                          /\ \A a \in LoanAmounts, d \in Durations :
                                requestLoan(c, a, d) => UNCHANGED vars]_vars

\* the contract is paused in a state where, but for the pause, a deposit, a
\* withdrawal, a claim of interest, a loan request and a repayment would
\* each be accepted
C24_Witness ==
    /\ paused
    /\ DepositAccepted("bob", 2 * MIN_LOAN_AMOUNT)
    /\ WithdrawAccepted("alice", 2 * MIN_LOAN_AMOUNT)
    /\ ClaimAccepted("alice")
    /\ RequestAccepted("alice", MIN_LOAN_AMOUNT, Day)
    /\ RepayAccepted("bob")

\* who may update parameters, as the claim has it
Authorized(c) == c = Owner \/ (daoEnabled /\ c = daoAddress)

C26_EnableDAOOnce ==
    /\ [](/\ \A c \in Users, d \in GovDaoCandidates :
              enableDAOError(c, d) = "ok"
                 <=> (c = Owner /\ ~daoEnabled /\ d # ZeroAddress)
          /\ ~daoEnabled => daoAddress = ZeroAddress
          /\ daoEnabled => daoAddress # ZeroAddress)
    /\ [][/\ daoEnabled => (daoEnabled' /\ daoAddress' = daoAddress)
          /\ \A c \in Users, d \in GovDaoCandidates :
                (enableDAOError(c, d) = "ok" /\ enableDAO(c, d))
                   => /\ ~daoEnabled
                      /\ daoEnabled'
                      /\ daoAddress' = d
                      /\ \A c2 \in Users, d2 \in GovDaoCandidates :
                            enableDAOError(c2, d2)' # "ok"
          /\ \A c \in Users, d \in GovDaoCandidates :
                (enableDAOError(c, d) # "ok" /\ enableDAO(c, d))
                   => UNCHANGED vars]_vars

\* governance was handed to "bob"; the contract has since been paused and
\* the cooldown changed, and a further enableDAO by the owner is refused
C26_Witness ==
    /\ daoEnabled
    /\ daoAddress = "bob"
    /\ paused
    /\ DEFAULT_COOLDOWN_PERIOD = 180 * Day
    /\ enableDAOError(Owner, "alice") = "DAO already enabled"
    /\ enableDAOError("bob", "alice") = "OwnableUnauthorizedAccount"

C28_AcceptsEqualDurations ==
    \A c \in Users, p \in GovDurationInputs :
        Authorized(c)
           => (updateLoanDurationLimitsError(c, p[1], p[2]) = "ok"
                  <=> /\ 1 * Day <= p[1]
                      /\ p[1] <= p[2]
                      /\ p[2] <= 365 * Day)

\* C28, amended: updateLoanDurationLimits(min, max) by an authorized caller
\* is accepted exactly for the pairs with 1 day <= min < max <= 365 days;
\* a pair with min = max inside the range is rejected with "Min must be
\* less than max".  An accepted call sets MIN_LOAN_DURATION to min and
\* MAX_LOAN_DURATION to max and changes nothing else; a rejected call
\* changes nothing.
C28_DurationLimits ==
    /\ [](\A c \in Users, p \in GovDurationInputs :
            Authorized(c)
               => /\ updateLoanDurationLimitsError(c, p[1], p[2]) = "ok"
                        <=> /\ 1 * Day <= p[1]
                            /\ p[1] < p[2]
                            /\ p[2] <= 365 * Day
                  /\ (1 * Day <= p[1] /\ p[1] = p[2] /\ p[2] <= 365 * Day)
                        => updateLoanDurationLimitsError(c, p[1], p[2]) =
                              "Min must be less than max")
    /\ [][\A c \in Users, p \in GovDurationInputs :
            /\ (/\ updateLoanDurationLimitsError(c, p[1], p[2]) = "ok"
                /\ updateLoanDurationLimits(c, p[1], p[2]))
                  => /\ MIN_LOAN_DURATION' = p[1]
                     /\ MAX_LOAN_DURATION' = p[2]
                     /\ UNCHANGED <<TRUST_INCREASE_PER_REPAYMENT,
                                    TRUST_DECREASE_ON_DEFAULT,
                                    BASE_INTEREST_RATE, MAX_INTEREST_RATE,
                                    MIN_LOAN_AMOUNT, DEFAULT_COOLDOWN_PERIOD,
                                    LOW_TRUST_LIMIT, MED_TRUST_LIMIT,
                                    HIGH_TRUST_LIMIT, pool, gov, maps,
                                    balanceOf, now>>
            /\ (/\ updateLoanDurationLimitsError(c, p[1], p[2]) # "ok"
                /\ updateLoanDurationLimits(c, p[1], p[2]))
                  => UNCHANGED vars]_vars

\* the DAO address has set the limits to 2 and 365 days, and neither it nor
\* the owner can set both to one value
C28_Witness ==
    /\ daoEnabled
    /\ daoAddress = "alice"
    /\ MIN_LOAN_DURATION = 2 * Day
    /\ MAX_LOAN_DURATION = 365 * Day
    /\ updateLoanDurationLimitsError("alice", 2 * Day, 2 * Day) =
          "Min must be less than max"
    /\ updateLoanDurationLimitsError(Owner, 365 * Day, 365 * Day) =
          "Min must be less than max"
    /\ updateLoanDurationLimitsError(Owner, Day, 365 * Day) = "ok"

\* C29 (vouching): vouchForUser(vouchee) succeeds only if the caller's
\* trustScore is at least 500, the caller has at least 2 successful
\* repayments, the vouchee is not the caller and the pair is not recorded;
\* a successful vouch records the pair, so that the same vouch fails from
\* then on; no step removes a recorded pair; and vouching for oneself
\* always fails and is never recorded.
C29_Vouching ==
    /\ [](\A c \in Users :
            /\ \A v \in Users :
                  vouchForUserError(c, v) = "ok"
                     => /\ userProfiles[c].trustScore >= 500
                        /\ userProfiles[c].successfulRepayments >= 2
                        /\ c # v
                        /\ ~vouches[c][v]
            /\ vouchForUserError(c, c) # "ok"
            /\ ~vouches[c][c])
    /\ [][\A c \in Users, v \in Users :
            /\ vouches[c][v] => vouches'[c][v]
            /\ (vouchForUserError(c, v) = "ok" /\ vouchForUser(c, v))
                  => /\ ~vouches[c][v]
                     /\ vouches'[c][v]
                     /\ vouchForUserError(c, v)' = "Already vouched"
            /\ (~vouches[c][v] /\ vouches'[c][v])
                  => (vouchForUserError(c, v) = "ok" /\ vouchForUser(c, v))
            /\ (vouchForUserError(c, v) # "ok" /\ vouchForUser(c, v))
                  => UNCHANGED vars]_vars

\* "bob" has vouched for "alice" and for the owner; he cannot vouch for
\* either again, nor for himself, and "alice" cannot vouch at all
C29_Witness ==
    /\ vouches["bob"]["alice"]
    /\ vouches["bob"][Owner]
    /\ userProfiles["bob"].trustScore >= 500
    /\ vouchForUserError("bob", "alice") = "Already vouched"
    /\ vouchForUserError("bob", Owner) = "Already vouched"
    /\ vouchForUserError("bob", "bob") = "Cannot vouch yourself"
    /\ vouchForUserError("alice", "bob") = "Insufficient trust"

\* no activity of wallet w has been recorded
NeverTracked(w) ==
    /\ userProfiles[w].walletFirstSeen = 0
    /\ userProfiles[w].totalTransactions = 0

\* C30 as stated: on a successful vouch a vouchee who has never been
\* tracked gets the score 150, any other vouchee with a score below 300
\* gains exactly 30, and any other score is unchanged.
C30_UntrackedGetsInitial ==
    [][\A c \in Users, v \in Users :
          (vouchForUserError(c, v) = "ok" /\ vouchForUser(c, v))
             => userProfiles'[v].trustScore =
                   IF NeverTracked(v) THEN INITIAL_TRUST_SCORE + 50
                   ELSE IF userProfiles[v].trustScore < 300
                   THEN userProfiles[v].trustScore + 30
                   ELSE userProfiles[v].trustScore]_vars

\* C30, amended: on a successful vouch, if the vouchee's stored trust score
\* is 0 (it was never initialised by a loan request or an earlier vouch,
\* whatever activity is recorded for them) it is set to
\* INITIAL_TRUST_SCORE + 50 = 150; otherwise, if it is below 300, it
\* increases by exactly 30; otherwise it is unchanged.  Nothing else of the
\* vouchee's profile changes; of the voucher's profile only the activity
\* tracking does; loans, lenders, balances, parameters and pool totals are
\* unchanged.
C30_VouchEffects ==
    [][\A c \in Users, v \in Users :
          (vouchForUserError(c, v) = "ok" /\ vouchForUser(c, v))
             => /\ userProfiles'[v] =
                      [userProfiles[v] EXCEPT !.trustScore =
                          IF @ = 0 THEN 150
                          ELSE IF @ < 300 THEN @ + 30
                          ELSE @]
                /\ userProfiles'[c] =
                      [userProfiles[c] EXCEPT
                          !.totalTransactions = @ + 1,
                          !.walletFirstSeen = IF @ = 0 THEN now ELSE @]
                /\ \A u \in Users \ {c, v} :
                      userProfiles'[u] = userProfiles[u]
                /\ UNCHANGED <<params, pool, gov, activeLoans, lenders,
                               balanceOf, now>>]_vars

\* "bob" has vouched for the owner, whose deposit was recorded but whose
\* score was 0, and for "alice", whose one repayment had taken her to 200
C30_Witness ==
    /\ vouches["bob"][Owner]
    /\ userProfiles[Owner].totalTransactions = 1
    /\ userProfiles[Owner].trustScore = 150
    /\ vouches["bob"]["alice"]
    /\ userProfiles["alice"].successfulRepayments = 1
    /\ userProfiles["alice"].trustScore = 230
\* SpecAtomic: calls of every operation that are rejected for every kind of
\* reason, among calls that are accepted.  "alice" and "bob" deposit nothing,
\* 0.02 ether or more than they hold; "alice" withdraws and claims; "bob"
\* borrows, repays (also after depositing what he would repay with), is
\* marked as defaulted and tries to vouch; the owner and "bob" try to enable
\* the DAO, to change the trust parameters and the interest rates and to
\* pause and unpause; two days pass at a time.
AtomicDeposits == DepositAmounts \cup {3 * MIN_LOAN_AMOUNT}
AtomicLoanAmounts == {MIN_LOAN_AMOUNT - 1, MIN_LOAN_AMOUNT,
                      2 * MIN_LOAN_AMOUNT + 1}
AtomicDurations == {0, Day}
AtomicTrustInputs == {<<100, 60>>, <<100, 0>>}
AtomicRateInputs == {<<1000, 5000>>, <<1000, 5001>>}

NextAtomic ==
    \/ AdvanceDays(2, MaxTime)
    \/ \E c \in {"alice", "bob"}, a \in AtomicDeposits :
          depositToPool(c, a) /\ WithinTx(MaxTxAtomic)
    \/ \E a \in DepositAmounts :
          withdrawFromPool("alice", a) /\ WithinTx(MaxTxAtomic)
    \/ claimInterest("alice") /\ WithinTx(MaxTxAtomic)
    \/ \E a \in AtomicLoanAmounts, d \in AtomicDurations :
          requestLoan("bob", a, d) /\ WithinTx(MaxTxAtomic)
    \/ repayLoan("bob") /\ WithinTx(MaxTxAtomic)
    \/ markDefault("alice", "bob")
    \/ \E v \in {"alice", "bob"} :
          vouchForUser("bob", v) /\ WithinTx(MaxTxAtomic)
    \/ \E c \in {Owner, "bob"}, d \in DaoCandidates : enableDAO(c, d)
    \/ \E c \in {Owner, "bob"}, p \in AtomicTrustInputs :
          updateTrustParameters(c, p[1], p[2])
    \/ \E c \in {Owner, "bob"}, p \in AtomicRateInputs :
          updateInterestRates(c, p[1], p[2])
    \/ \E c \in {Owner, "bob"} : pause(c)
    \/ \E c \in {Owner, "bob"} : unpause(c)

SpecAtomic == Init /\ [][NextAtomic]_vars

\* C31 (no partial commit): a call of any operation that is rejected, for a
\* failed validation, a state conflict, a missing authorization, a missing
\* resource, a time condition or a failed token transfer, leaves the whole
\* ledger as it was: the caller's walletFirstSeen and totalTransactions, the
\* initial trust score that requestLoan writes before its checks, and both
\* values of a two-parameter update included.
C31_NoPartialCommit ==
    [][/\ \A c \in {"alice", "bob"}, a \in AtomicDeposits :
             (depositToPoolError(c, a) # "ok" /\ depositToPool(c, a))
                => UNCHANGED ledger
       /\ \A a \in DepositAmounts :
             (withdrawFromPoolError("alice", a) # "ok"
                 /\ withdrawFromPool("alice", a)) => UNCHANGED ledger
       /\ (claimInterestError("alice") # "ok" /\ claimInterest("alice"))
             => UNCHANGED ledger
       /\ \A a \in AtomicLoanAmounts, d \in AtomicDurations :
             (requestLoanError("bob", a, d) # "ok" /\ requestLoan("bob", a, d))
                => UNCHANGED ledger
       /\ (repayLoanError("bob") # "ok" /\ repayLoan("bob"))
             => UNCHANGED ledger
       /\ (markDefaultError("alice", "bob") # "ok"
              /\ markDefault("alice", "bob")) => UNCHANGED ledger
       /\ \A v \in {"alice", "bob"} :
             (vouchForUserError("bob", v) # "ok" /\ vouchForUser("bob", v))
                => UNCHANGED ledger
       /\ \A c \in {Owner, "bob"} :
             /\ \A d \in DaoCandidates :
                   (enableDAOError(c, d) # "ok" /\ enableDAO(c, d))
                      => UNCHANGED ledger
             /\ \A p \in AtomicTrustInputs :
                   (updateTrustParametersError(c, p[1], p[2]) # "ok"
                       /\ updateTrustParameters(c, p[1], p[2]))
                      => UNCHANGED ledger
             /\ \A p \in AtomicRateInputs :
                   (updateInterestRatesError(c, p[1], p[2]) # "ok"
                       /\ updateInterestRates(c, p[1], p[2]))
                      => UNCHANGED ledger
             /\ (pauseError(c) # "ok" /\ pause(c)) => UNCHANGED ledger
             /\ (unpauseError(c) # "ok" /\ unpause(c)) => UNCHANGED ledger
      ]_vars

\* "bob", who deposited his tokens, holds a loan he cannot pay back (the
\* transfer of the repayment fails) and asks for a second loan in vain;
\* "alice" cannot withdraw what she never deposited, and no default can be
\* marked yet
C31_Witness ==
    /\ repayLoanError("bob") = "ERC20InsufficientBalance"
    /\ requestLoanError("bob", MIN_LOAN_AMOUNT, Day) = "Already has active loan"
    /\ depositToPoolError("alice", 3 * MIN_LOAN_AMOUNT)
          = "ERC20InsufficientBalance"
    /\ withdrawFromPoolError("alice", 2 * MIN_LOAN_AMOUNT)
          = "Insufficient balance"
    /\ markDefaultError("alice", "bob") = "Not overdue yet"
    /\ updateTrustParametersError(Owner, 100, 0) = "Invalid decrease"
    /\ updateInterestRatesError("bob", 1000, 5000) = "Not authorized"

\* the first failing check of a loan request in the order active loan,
\* minimum amount, duration too short, duration too long, default cooldown,
\* trust/maturity limit, pool liquidity
FirstFailingCheck(b, a, d) ==
    LET user == userProfiles[b]
    IN IF user.hasActiveLoan THEN "Already has active loan"
       ELSE IF a < MIN_LOAN_AMOUNT THEN "Amount below minimum"
       ELSE IF d < MIN_LOAN_DURATION THEN "Duration too short"
       ELSE IF d > MAX_LOAN_DURATION THEN "Duration too long"
       ELSE IF user.defaults > 0
               /\ now <= user.lastDefaultTime + DEFAULT_COOLDOWN_PERIOD
       THEN "Blocked due to recent default"
       ELSE IF a > getUserProfile(b).maxBorrowingLimit
       THEN "Amount exceeds trust/maturity limit"
       ELSE IF a > totalPoolLiquidity - totalActiveLoans
       THEN "Insufficient pool liquidity"
       ELSE "ok"

\* C32 as stated: requestLoan always reports the first failing check of
\* that order.
C32_AlwaysFirstFailing ==
    \A b \in Users, a \in LoanAmounts, d \in Durations :
        requestLoanError(b, a, d) = FirstFailingCheck(b, a, d)

\* C32, amended (order of the checks): while the contract is paused every
\* request fails with EnforcedPause, whatever else is wrong with it; while
\* it is not paused requestLoan reports the first failing check in the
\* order active loan, minimum amount, duration too short, duration too
\* long, default cooldown, trust/maturity limit, pool liquidity, and
\* succeeds if none fails.
C32_CheckOrder ==
    \A b \in Users, a \in LoanAmounts, d \in Durations :
        requestLoanError(b, a, d) =
            IF paused THEN "EnforcedPause" ELSE FirstFailingCheck(b, a, d)

\* "bob" is inside the cooldown after a default: a request below the
\* minimum amount fails for the amount, one of a day too many for the
\* duration, and a well-formed one for the cooldown
C32_Witness ==
    /\ ~paused
    /\ userProfiles["bob"].defaults > 0
    /\ ~userProfiles["bob"].hasActiveLoan
    /\ now <= userProfiles["bob"].lastDefaultTime + DEFAULT_COOLDOWN_PERIOD
    /\ requestLoanError("bob", MIN_LOAN_AMOUNT - 1, Day) = "Amount below minimum"
    /\ requestLoanError("bob", MIN_LOAN_AMOUNT, 366 * Day) = "Duration too long"
    /\ requestLoanError("bob", MIN_LOAN_AMOUNT, Day)
          = "Blocked due to recent default"

\* SpecWallet: the owner deposits, withdraws and claims interest, "alice"
\* borrows and repays until she may vouch for "bob", who never calls a
\* tracked operation himself but marks her loan as defaulted; two days pass
\* at a time.
NextWallet ==
    \/ AdvanceDays(2, MaxTime)
    \/ depositToPool(Owner, 2 * MIN_LOAN_AMOUNT) /\ WithinTx(MaxTxWallet)
    \/ withdrawFromPool(Owner, MIN_LOAN_AMOUNT) /\ WithinTx(MaxTxWallet)
    \/ claimInterest(Owner) /\ WithinTx(MaxTxWallet)
    \/ requestLoan("alice", MIN_LOAN_AMOUNT, Day) /\ WithinTx(MaxTxWallet)
    \/ repayLoan("alice") /\ WithinTx(MaxTxWallet)
    \/ markDefault("bob", "alice")
    \/ vouchForUser("alice", "bob") /\ WithinTx(MaxTxWallet)
    \/ updateTrustParameters(Owner, 100, 60)

SpecWallet == Init /\ [][NextWallet]_vars

\* the step is an accepted call by u of one of the six tracked operations
TrackedCallBy(u) ==
    \/ u = Owner /\ depositToPoolError(u, 2 * MIN_LOAN_AMOUNT) = "ok"
          /\ depositToPool(u, 2 * MIN_LOAN_AMOUNT)
    \/ u = Owner /\ withdrawFromPoolError(u, MIN_LOAN_AMOUNT) = "ok"
          /\ withdrawFromPool(u, MIN_LOAN_AMOUNT)
    \/ u = Owner /\ claimInterestError(u) = "ok" /\ claimInterest(u)
    \/ u = "alice" /\ requestLoanError(u, MIN_LOAN_AMOUNT, Day) = "ok"
          /\ requestLoan(u, MIN_LOAN_AMOUNT, Day)
    \/ u = "alice" /\ repayLoanError(u) = "ok" /\ repayLoan(u)
    \/ u = "alice" /\ vouchForUserError(u, "bob") = "ok"
          /\ vouchForUser(u, "bob")

\* C33 (activity tracking): a user's walletFirstSeen is unset exactly as
\* long as no call of theirs was counted; it is set, to the time of the
\* call, by the first accepted deposit, withdrawal, claim, loan request,
\* repayment or vouch the user makes as caller, and never changes once set;
\* being the borrower of a markDefault or the vouchee of a vouch neither
\* sets nor changes it; and totalLoansTaken, successfulRepayments, defaults
\* and totalTransactions never decrease.
C33_WalletFirstSeen ==
    /\ [](\A u \in Users :
             userProfiles[u].walletFirstSeen = 0
                <=> userProfiles[u].totalTransactions = 0)
    /\ [][\A u \in Users :
             LET old == userProfiles[u]
                 new == userProfiles'[u]
             IN /\ old.walletFirstSeen # 0
                      => new.walletFirstSeen = old.walletFirstSeen
                /\ new.walletFirstSeen # old.walletFirstSeen
                      => /\ old.totalTransactions = 0
                         /\ new.totalTransactions = 1
                         /\ new.walletFirstSeen = now
                         /\ TrackedCallBy(u)
                /\ TrackedCallBy(u)
                      => /\ new.totalTransactions = old.totalTransactions + 1
                         /\ new.walletFirstSeen # 0
                /\ (markDefaultError("bob", "alice") = "ok"
                       /\ markDefault("bob", "alice"))
                      => new.walletFirstSeen = old.walletFirstSeen
                /\ (u = "bob" /\ vouchForUserError("alice", "bob") = "ok"
                       /\ vouchForUser("alice", "bob"))
                      => /\ new.walletFirstSeen = old.walletFirstSeen
                         /\ new.totalTransactions = old.totalTransactions
                /\ new.totalLoansTaken >= old.totalLoansTaken
                /\ new.successfulRepayments >= old.successfulRepayments
                /\ new.defaults >= old.defaults
                /\ new.totalTransactions >= old.totalTransactions]_vars

\* "alice", first seen on day 1, is still recorded so on day 3 after further
\* calls and a default marked by "bob"; she has vouched for him, and neither
\* the vouch nor marking the default left a trace of activity on his profile
C33_Witness ==
    /\ now = 3
    /\ userProfiles["alice"].walletFirstSeen = 1
    /\ userProfiles["alice"].totalTransactions >= 9
    /\ userProfiles["alice"].defaults = 1
    /\ vouches["alice"]["bob"]
    /\ userProfiles["bob"].trustScore = INITIAL_TRUST_SCORE + 50
    /\ userProfiles["bob"].walletFirstSeen = 0
    /\ userProfiles["bob"].totalTransactions = 0
    /\ userProfiles[Owner].walletFirstSeen = 1

\* SpecBook: the owner and "alice" fund the pool, "alice" and "bob" hold
\* loans of 0.01 or 0.02 ether at the same time and repay them, or the owner
\* marks them as defaulted; two days pass at a time.
NextBook ==
    \/ AdvanceDays(2, MaxTime)
    \/ \E c \in Lenders :
          depositToPool(c, 2 * MIN_LOAN_AMOUNT) /\ WithinTx(MaxTxBook)
    \/ \E b \in {"alice", "bob"}, a \in {MIN_LOAN_AMOUNT, 2 * MIN_LOAN_AMOUNT} :
          requestLoan(b, a, Day) /\ WithinTx(MaxTxBook)
    \/ \E b \in {"alice", "bob"} : repayLoan(b) /\ WithinTx(MaxTxBook)
    \/ \E b \in {"alice", "bob"} : markDefault(Owner, b)

SpecBook == Init /\ [][NextBook]_vars

\* the principals of the loan slots of the borrowers in S, added up
RECURSIVE SumPrincipals(_)
SumPrincipals(S) ==
    IF S = {} THEN 0
    ELSE LET b == CHOOSE x \in S : TRUE
         IN activeLoans[b].principal + SumPrincipals(S \ {b})

\* C34 (active loans): totalActiveLoans is the sum of the principals of the
\* loans of exactly the borrowers whose hasActiveLoan is set, and
\* hasActiveLoan is set only for a borrower whose loan slot has status ACTIVE
\* and a principal above 0.
C34_ActiveLoansSum ==
    /\ totalActiveLoans
          = SumPrincipals({b \in Users : userProfiles[b].hasActiveLoan})
    /\ \A b \in Users :
          userProfiles[b].hasActiveLoan
             => /\ activeLoans[b].status = "ACTIVE"
                /\ activeLoans[b].principal > 0

\* "alice" holds a loan of 0.02 ether while "bob", who repaid a loan
\* before, holds one of 0.01 ether, and "owner" never borrowed
C34_Witness ==
    /\ userProfiles["alice"].hasActiveLoan
    /\ activeLoans["alice"].principal = 2 * MIN_LOAN_AMOUNT
    /\ userProfiles["bob"].hasActiveLoan
    /\ activeLoans["bob"].principal = MIN_LOAN_AMOUNT
    /\ userProfiles["bob"].successfulRepayments = 1
    /\ totalActiveLoans = 3 * MIN_LOAN_AMOUNT

\* C35 (loan count): for every user, totalLoansTaken is successfulRepayments
\* plus defaults, plus one if the user has an active loan.
C35_LoanCount ==
    \A u \in Users :
        userProfiles[u].totalLoansTaken
           = userProfiles[u].successfulRepayments + userProfiles[u].defaults
             + (IF userProfiles[u].hasActiveLoan THEN 1 ELSE 0)

\* "bob" repaid one loan, defaulted on a second and holds no loan, while
\* "alice" holds her first
C35_Witness ==
    /\ userProfiles["bob"].totalLoansTaken = 2
    /\ userProfiles["bob"].successfulRepayments = 1
    /\ userProfiles["bob"].defaults = 1
    /\ ~userProfiles["bob"].hasActiveLoan
    /\ userProfiles["alice"].totalLoansTaken = 1
    /\ userProfiles["alice"].hasActiveLoan

\* C36 (custody): the tokens the contract holds are the liquidity that is
\* not lent out plus the interest pool,
\* balanceOf[Contract] = (totalPoolLiquidity - totalActiveLoans)
\* + totalInterestPool, so that no withdrawal, loan request or claim of
\* interest that passes the contract's own checks fails for want of tokens
\* in custody.
C36_Custody ==
    /\ balanceOf[Contract]
          = (totalPoolLiquidity - totalActiveLoans) + totalInterestPool
    /\ \A c \in Users :
          /\ claimInterestError(c) # "ERC20InsufficientBalance"
          /\ \A a \in {MIN_LOAN_AMOUNT, 2 * MIN_LOAN_AMOUNT} :
                /\ withdrawFromPoolError(c, a) # "ERC20InsufficientBalance"
                /\ requestLoanError(c, a, Day) # "ERC20InsufficientBalance"

\* after a repayment with interest, a claim of interest and a default, the
\* contract still holds tokens and "alice" may withdraw
C36_Witness ==
    /\ totalDefaultedAmount > 0
    /\ lenders["alice"].totalInterestEarned > 0
    /\ balanceOf[Contract] > 0
    /\ withdrawFromPoolError("alice", MIN_LOAN_AMOUNT) = "ok"

\* C37 (isOverdue): getActiveLoan reports isOverdue only for a borrower
\* whose hasActiveLoan is set and whose loan's dueDate is before now, and it
\* reports isOverdue = FALSE for a borrower who never took a loan.
C37_IsOverdue ==
    \A b \in Users :
        /\ getActiveLoan(b).isOverdue
              => /\ userProfiles[b].hasActiveLoan
                 /\ activeLoans[b].dueDate < now
        /\ userProfiles[b].totalLoansTaken = 0 => ~getActiveLoan(b).isOverdue

\* C38 as stated: whenever no loan is active and the contract is not
\* paused, every lender can withdraw their entire deposit in one call, also
\* after loans have defaulted.
C38_FullWithdrawal ==
    (totalActiveLoans = 0 /\ ~paused)
       => \A c \in Users :
             lenders[c].depositedAmount > 0
                => withdrawFromPoolError(c, lenders[c].depositedAmount) = "ok"

\* C38, amended (full withdrawal): whenever no loan is active and the
\* contract is not paused, a lender can withdraw their entire deposit in one
\* call exactly if it does not exceed totalPoolLiquidity; this is so for
\* every lender as long as no loan has defaulted, and after defaults a
\* lender whose deposit exceeds what is left in the pool is rejected with
\* "Insufficient pool liquidity".
C38_FullWithdrawalUnlessLoss ==
    (totalActiveLoans = 0 /\ ~paused)
       => \A c \in Users :
             LET deposit == lenders[c].depositedAmount
             IN deposit > 0
                   => /\ withdrawFromPoolError(c, deposit) = "ok"
                            <=> deposit <= totalPoolLiquidity
                      /\ totalDefaultedAmount = 0
                            => withdrawFromPoolError(c, deposit) = "ok"
                      /\ deposit > totalPoolLiquidity
                            => withdrawFromPoolError(c, deposit)
                                  = "Insufficient pool liquidity"

\* after a default no loan is active and the contract is not paused: one
\* lender has withdrawn their entire deposit and the other cannot
C38_Witness ==
    /\ totalActiveLoans = 0
    /\ ~paused
    /\ totalDefaultedAmount > 0
    /\ \E c \in Lenders :
          /\ lenders[c].depositedAmount = 0
          /\ lenders[c].depositTime > 0
          /\ userProfiles[c].totalTransactions = 2
    /\ \E c \in Lenders :
          /\ lenders[c].depositedAmount > totalPoolLiquidity
          /\ withdrawFromPoolError(c, lenders[c].depositedAmount)
                = "Insufficient pool liquidity"

\* C39 (repeated claims): right after a lender's successful claimInterest,
\* with no repayment, deposit or withdrawal in between, a second
\* claimInterest by the same lender fails with "No interest to claim".
C39_SecondClaimFails ==
    [][\A c \in Users :
          (claimInterestError(c) = "ok" /\ claimInterest(c))
             => claimInterestError(c)' = "No interest to claim"]_vars

\* C40 (vouching while paused): while the pause flag is set every
\* vouchForUser call is rejected, so that no trust score and no vouch
\* record changes through a vouch during a pause.
C40_NoVouchWhilePaused ==
    [][\A c \in Users, v \in Users :
          (paused /\ vouchForUser(c, v))
             => /\ vouchForUserError(c, v) # "ok"
                /\ UNCHANGED <<userProfiles, vouches>>]_vars
====
